---- MODULE Spec2Model ----
(***************************************************************************)
(* A model of the handle layer of src/src/tailscale.rs: the configuration  *)
(* builder, the Session (Tailscale), Listener and Connection handles, the  *)
(* calls bridged to the blocking pool, and the readiness loop of a         *)
(* Connection's asynchronous read and write.                               *)
(*                                                                         *)
(* Descriptors are small integers handed out by the native surface (and    *)
(* the OS) in increasing order.  Every close call that is issued, native   *)
(* or OS level, is appended to closeLog, so the order of closes inside one *)
(* destructor is observable.                                               *)
(***************************************************************************)
EXTENDS Integers, Sequences, FiniteSets, Bags, TLC

\* Number of descriptors the native surface and the OS hand out in a run.
MaxFd == 3
\* Number of bridged native calls in flight at the same time.
MaxCalls == 1
\* Number of connections one listener accepts, and of accept() calls in
\* flight at the same time, where accept() is looked at on its own.
MaxAccepts == 2
\* Number of bridged calls in flight at the same time, where failures that
\* overlap are looked at.
MaxPending == 2

\* The descriptors of a session, a listener and its accepted connections.
AcceptFds == MaxAccepts + 2

\* Descriptor numbers.
Fds == 1..(IF MaxFd > AcceptFds THEN MaxFd ELSE AcceptFds)

VARIABLES
    builder,        \* TailscaleBuilder: ephemeral, hostname, dir, auth_key, log_config
    nextFd,         \* the next descriptor the native surface / the OS hands out
    kind,           \* per descriptor: "free", "session", "listener", "conn", "logfd"
    life,           \* per descriptor: "none", "raw" (open, no owning value), "live", "dropped"
    strong,         \* Arc strong count of a Tailscale / Listener; 1 for a live Connection
    held,           \* handles the application still owns (Arc<Tailscale>, Arc<Listener>, Connection)
    ln_tailscale,   \* Listener._tailscale: the session a listener references
    conn_listener,  \* Connection.listener: the listener (0 = None)
    conn_origin,    \* the session a connection descriptor was dialed or accepted under
    ts_log_fd,      \* Tailscale._log_fd (0 = None)
    flags,          \* per connection descriptor: O_NONBLOCK set, registered with AsyncFd
    started,        \* per session: tailscale_up has returned 0
    errmsg,         \* per session: the failed native call the text of tailscale_errmsg is about
    calls,          \* bag of native calls handed to spawn_blocking and not yet consumed
    closeLog,       \* every close issued so far, in order: the descriptor closed
    ready,          \* per connection: the readiness AsyncFd has cached, per direction
    rx,             \* per connection: what the OS holds for a read (bytes, EOF, error)
    tx,             \* per connection: what the OS allows a write (room, error)
    rd,             \* per connection: where its read is: "idle", "poll", "guard", "pending"
    wr,             \* per connection: where its write is, likewise
    attempt,        \* the OS read or write the step just taken made, and its result
    nativeLog,      \* the native calls and error! lines the step just taken issued on the calling thread, in order
    outcome         \* what the step just taken returned to its caller, if anything

\* The state of the asynchronous I/O of the connections.
ioVars == << ready, rx, tx, rd, wr >>

vars == << builder, nextFd, kind, life, strong, held, ln_tailscale, conn_listener,
           conn_origin, ts_log_fd, flags, started, errmsg, calls, closeLog, nativeLog, outcome,
           ready, rx, tx, rd, wr, attempt >>

----------------------------------------------------------------------------
(* Values *)

\* Return codes of the native surface: zero on success, -1 on error.
RetCodes == {0, -1}

\* Option texts as byte strings; the second one carries an embedded NUL.
TextFoo == << 102, 111, 111 >>
TextNul == << 102, 0, 111 >>
Texts == { TextFoo, TextNul }
\* Option<String> / Option<PathBuf>
None == [ some |-> FALSE, v |-> << >> ]
Some(s) == [ some |-> TRUE, v |-> s ]

\* CString::new fails exactly on an interior 0 byte.
HasNul(s) == \E i \in DOMAIN s : s[i] = 0

LogDefault == [ mode |-> "Default", fd |-> 0 ]
LogDiscard == [ mode |-> "Discard", fd |-> 0 ]
LogFd(fd) == [ mode |-> "Fd", fd |-> fd ]

\* TailscaleBuilder::default()
BuilderDefault ==
    [ ephemeral |-> FALSE, hostname |-> None, dir |-> None, auth_key |-> None,
      log_config |-> LogDefault ]

\* What an operation returns: the variant of its Result (res), the descriptor
\* of the handle it produced (val, 0: none) and the texts or addresses the
\* value carries (data).
NoOutcome == [ op |-> "none", res |-> "none", val |-> 0, data |-> << >> ]
OutcomeWith(op, res, val, data) == [ op |-> op, res |-> res, val |-> val, data |-> data ]
Outcome(op, res, val) == OutcomeWith(op, res, val, << >>)

\* Number of times descriptor fd occurs in a close log.
Closes(log, fd) == Cardinality({ i \in DOMAIN log : log[i] = fd })
\* Position of the first close of fd in a close log (0: never closed).
ClosedAt(log, fd) ==
    IF \E i \in DOMAIN log : log[i] = fd
    THEN CHOOSE i \in DOMAIN log : log[i] = fd /\ \A j \in DOMAIN log : log[j] = fd => i <= j
    ELSE 0

\* NetworkType and NetworkType::as_str
Networks == { "Tcp", "Udp" }
as_str(net) == IF net = "Tcp" THEN << 116, 99, 112 >> ELSE << 117, 100, 112 >>

\* Addresses a caller passes to listener() and connect(): ":80", ":81" and
\* one with an embedded NUL.
AddrA == << 58, 56, 48 >>
AddrB == << 58, 56, 49 >>
Addrs == { AddrA, AddrB, TextNul }

\* str::from_utf8 on the bytes the model uses: ASCII and two-byte sequences
\* are valid, any other byte is not.
RECURSIVE IsUtf8(_)
IsUtf8(s) ==
    IF s = << >> THEN TRUE
    ELSE IF s[1] < 128 THEN IsUtf8(Tail(s))
    ELSE IF s[1] \in 194..223 /\ Len(s) >= 2 /\ s[2] \in 128..191 THEN IsUtf8(Tail(Tail(s)))
    ELSE FALSE

\* Decimal text of a natural number, as format!("{}") writes it.
RECURSIVE Decimal(_)
Decimal(n) == IF n < 10 THEN << 48 + n >> ELSE Decimal(n \div 10) \o << 48 + (n % 10) >>

\* What tailscale_errmsg answers: its return code and the text it leaves in
\* the buffer (up to the NUL): "down", nothing with ERANGE (the error text
\* does not fit the 2048 bytes of the buffer), or bytes that are not UTF-8.
ERANGE == 34
MsgDown == << 100, 111, 119, 110 >>
MsgNotUtf8 == << 100, 255 >>
ErrReplies ==
    { [ ret |-> 0, text |-> MsgDown ],
      [ ret |-> ERANGE, text |-> << >> ],
      [ ret |-> 0, text |-> MsgNotUtf8 ] }

NotReady == [ read |-> FALSE, write |-> FALSE ]
RxQuiet == [ avail |-> 0, eof |-> FALSE, err |-> FALSE ]
TxQuiet == [ room |-> 0, err |-> FALSE ]

NoAttempt == [ op |-> "none", fd |-> 0, res |-> "none", n |-> 0 ]
Attempt(op, fd, res, n) == [ op |-> op, fd |-> fd, res |-> res, n |-> n ]

\* A step returns o after the OS read or write a; it issues no native call
\* on the calling thread.
ReturnsAfter(o, a) ==
    /\ outcome' = o
    /\ nativeLog' = << >>
    /\ attempt' = a

Returns(o) == ReturnsAfter(o, NoAttempt)

\* A step returns o after the native calls cs, issued on the calling thread.
ReturnsCalling(o, cs) ==
    /\ outcome' = o
    /\ nativeLog' = cs
    /\ attempt' = NoAttempt

----------------------------------------------------------------------------
(* TailscaleBuilder::build, as the sequence of its steps.  Each step takes  *)
(* the run so far and returns it unchanged once build() has returned.      *)

Setters == { "ephemeral", "dir", "hostname", "authkey", "logfd" }

NativeCall(fn, sd, arg, text, ret) ==
    [ fn |-> fn, sd |-> sd, arg |-> arg, text |-> text, ret |-> ret ]

\* let sd = tailscale_new(); if sd == 0 { return Err(CreateTailscale) }
BuildStart(b, sd) ==
    [ calls |-> << NativeCall("tailscale_new", 0, 0, << >>, sd) >>,
      res |-> IF sd = 0 THEN "CreateTailscale" ELSE "run",
      log_fd |-> 0,
      log_config |-> b.log_config,
      closed |-> << >> ]

\* if self.ephemeral { tailscale_set_ephemeral(sd, 1) }
StepEphemeral(b, sd, ret, acc) ==
    IF acc.res # "run" \/ ~b.ephemeral THEN acc
    ELSE [ acc EXCEPT
             !.calls = Append(@, NativeCall("tailscale_set_ephemeral", sd, 1, << >>, ret)),
             !.res = IF ret # 0 THEN "SetEphemeral" ELSE "run" ]

\* if let Some(text) = option { CString::new(text)?; setter(sd, text) }
StepText(fn, err, opt, sd, ret, acc) ==
    IF acc.res # "run" \/ ~opt.some THEN acc
    ELSE IF HasNul(opt.v) THEN [ acc EXCEPT !.res = "Utf8Error" ]
    ELSE [ acc EXCEPT
             !.calls = Append(@, NativeCall(fn, sd, 0, opt.v, ret)),
             !.res = IF ret # 0 THEN err ELSE "run" ]

StepDir(b, sd, ret, acc) == StepText("tailscale_set_dir", "SetDir", b.dir, sd, ret, acc)

StepHostname(b, sd, ret, acc) ==
    StepText("tailscale_set_hostname", "SetHostname", b.hostname, sd, ret, acc)

StepAuthKey(b, sd, ret, acc) ==
    StepText("tailscale_set_authkey", "SetAuthKey", b.auth_key, sd, ret, acc)

\* Mutant: discard passes descriptor 0 instead of the sentinel -1.
StepLogDiscardZero(b, sd, ret, acc) ==
    IF acc.res # "run" THEN acc
    ELSE LET taken == b.log_config
             a1 == [ acc EXCEPT !.log_config = LogDefault ]
         IN  CASE taken.mode = "Default" -> a1
               [] taken.mode = "Fd" ->
                    LET a2 == [ a1 EXCEPT !.calls =
                                  Append(@, NativeCall("tailscale_set_logfd", sd, taken.fd, << >>, ret)) ]
                    IN  IF ret # 0
                        THEN [ a2 EXCEPT !.res = "SetLogFd", !.closed = Append(@, taken.fd) ]
                        ELSE [ a2 EXCEPT !.log_fd = taken.fd ]
               [] taken.mode = "Discard" ->
                    LET a2 == [ a1 EXCEPT !.calls =
                                  Append(@, NativeCall("tailscale_set_logfd", sd, 0, << >>, ret)) ]
                    IN  IF ret # 0 THEN [ a2 EXCEPT !.res = "SetLogFd" ] ELSE a2

\* Mutant: the log mode is read without being taken out of the builder.
StepLogKeepsMode(b, sd, ret, acc) ==
    IF acc.res # "run" THEN acc
    ELSE LET taken == b.log_config
         IN  CASE taken.mode = "Default" -> acc
               [] taken.mode = "Fd" ->
                    LET a2 == [ acc EXCEPT !.calls =
                                  Append(@, NativeCall("tailscale_set_logfd", sd, taken.fd, << >>, ret)) ]
                    IN  IF ret # 0
                        THEN [ a2 EXCEPT !.res = "SetLogFd", !.closed = Append(@, taken.fd) ]
                        ELSE [ a2 EXCEPT !.log_fd = taken.fd ]
               [] taken.mode = "Discard" ->
                    LET a2 == [ acc EXCEPT !.calls =
                                  Append(@, NativeCall("tailscale_set_logfd", sd, -1, << >>, ret)) ]
                    IN  IF ret # 0 THEN [ a2 EXCEPT !.res = "SetLogFd" ] ELSE a2

\* match std::mem::take(&mut self.log_config) { Default | Fd(owned_fd) | Discard }
StepLog(b, sd, ret, acc) ==
    IF acc.res # "run" THEN acc
    ELSE LET taken == b.log_config
             a1 == [ acc EXCEPT !.log_config = LogDefault ]
         IN  CASE taken.mode = "Default" -> a1
               [] taken.mode = "Fd" ->
                    LET a2 == [ a1 EXCEPT !.calls =
                                  Append(@, NativeCall("tailscale_set_logfd", sd, taken.fd, << >>, ret)) ]
                    IN  IF ret # 0
                        THEN [ a2 EXCEPT !.res = "SetLogFd", !.closed = Append(@, taken.fd) ]
                        ELSE [ a2 EXCEPT !.log_fd = taken.fd ]
               [] taken.mode = "Discard" ->
                    LET a2 == [ a1 EXCEPT !.calls =
                                  Append(@, NativeCall("tailscale_set_logfd", sd, -1, << >>, ret)) ]
                    IN  IF ret # 0 THEN [ a2 EXCEPT !.res = "SetLogFd" ] ELSE a2

\* Ok(Arc::new(Tailscale { sd, _log_fd: log_fd }))
BuildFinish(acc) == IF acc.res = "run" THEN [ acc EXCEPT !.res = "Ok" ] ELSE acc

\* Mutant: the hostname is applied before the storage directory.
buildHostnameFirst(b, sd, r) ==
    BuildFinish(
      StepLog(b, sd, r["logfd"],
        StepAuthKey(b, sd, r["authkey"],
          StepDir(b, sd, r["dir"],
            StepHostname(b, sd, r["hostname"],
              StepEphemeral(b, sd, r["ephemeral"], BuildStart(b, sd)))))))

\* The whole of build() on builder b, with the descriptor tailscale_new
\* returns and the return code r[s] each setter would give.
build(b, sd, r) ==
    BuildFinish(
      StepLog(b, sd, r["logfd"],
        StepAuthKey(b, sd, r["authkey"],
          StepHostname(b, sd, r["hostname"],
            StepDir(b, sd, r["dir"],
              StepEphemeral(b, sd, r["ephemeral"], BuildStart(b, sd)))))))

\* Descriptors closed by a list of close calls are dropped values.
MarkClosed(lf, closed) ==
    [ fd \in DOMAIN lf |->
        IF \E i \in DOMAIN closed : closed[i] = fd THEN "dropped" ELSE lf[fd] ]

\* The setters build() can reach on builder b.
Configured(b) ==
    { s \in Setters :
        \/ s = "ephemeral" /\ b.ephemeral
        \/ s = "dir" /\ b.dir.some
        \/ s = "hostname" /\ b.hostname.some
        \/ s = "authkey" /\ b.auth_key.some
        \/ s = "logfd" /\ b.log_config.mode # "Default" }

\* Return codes for the setters: only a configured setter's code is read.
SetterReturns(b) ==
    { r \in [Setters -> RetCodes] : \A s \in Setters \ Configured(b) : r[s] = 0 }

Build ==
    \E sd \in {0} \cup ({nextFd} \cap (1..MaxFd)), r \in SetterReturns(builder) :
        LET run == build(builder, sd, r)
            ok == run.res = "Ok"
        IN  /\ builder' = [ builder EXCEPT !.log_config = run.log_config ]
            /\ nextFd' = IF sd = 0 THEN nextFd ELSE nextFd + 1
            /\ kind' = IF sd = 0 THEN kind ELSE [ kind EXCEPT ![sd] = "session" ]
            /\ life' = IF sd = 0 THEN life
                       ELSE MarkClosed([ life EXCEPT ![sd] = IF ok THEN "live" ELSE "raw" ],
                                       run.closed)
            /\ strong' = IF ok THEN [ strong EXCEPT ![sd] = 1 ] ELSE strong
            /\ held' = IF ok THEN [ held EXCEPT ![sd] = 1 ] ELSE held
            /\ ts_log_fd' = IF ok THEN [ ts_log_fd EXCEPT ![sd] = run.log_fd ] ELSE ts_log_fd
            /\ closeLog' = closeLog \o run.closed
            /\ nativeLog' = run.calls
            /\ attempt' = NoAttempt
            /\ outcome' = Outcome("build", run.res, IF ok THEN sd ELSE 0)
            /\ UNCHANGED << ln_tailscale, conn_listener, conn_origin, flags, started, errmsg, calls >>
            /\ UNCHANGED ioVars

----------------------------------------------------------------------------
(* Tailscale::get_error_message and the failures built from it. *)

\* format!("Failed to retrieve error message (error code: {})", ret)
FailedToRetrieve(ret) ==
    << 70, 97, 105, 108, 101, 100, 32, 116, 111, 32, 114, 101, 116, 114, 105, 101, 118, 101, 32, 101, 114, 114, 111, 114, 32, 109, 101, 115, 115, 97, 103, 101, 32, 40, 101, 114, 114, 111, 114, 32, 99, 111, 100, 101, 58, 32 >>
        \o Decimal(ret) \o << 41 >>

\* get_error_message() reading the buffer whatever tailscale_errmsg returns.
get_error_messageUnchecked(sd, e) ==
    LET call == NativeCall("tailscale_errmsg", sd, 0, e.text, e.ret)
    IN  IF ~IsUtf8(e.text)
        THEN [ ok |-> FALSE, res |-> "Utf8ContentError", msg |-> << >>, calls |-> << call >> ]
        ELSE [ ok |-> TRUE, res |-> "Ok", msg |-> e.text, calls |-> << call >> ]

\* get_error_message() on session sd, tailscale_errmsg answering e: a
\* positive return is a failure of its own; the text up to the NUL must be
\* UTF-8.
get_error_message(sd, e) ==
    LET call == NativeCall("tailscale_errmsg", sd, 0, e.text, e.ret)
    IN  IF e.ret > 0
        THEN [ ok |-> FALSE, res |-> "Tailscale", msg |-> FailedToRetrieve(e.ret), calls |-> << call >> ]
        ELSE IF ~IsUtf8(e.text)
        THEN [ ok |-> FALSE, res |-> "Utf8ContentError", msg |-> << >>, calls |-> << call >> ]
        ELSE [ ok |-> TRUE, res |-> "Ok", msg |-> e.text, calls |-> << call >> ]

----------------------------------------------------------------------------
(* Destructors.  A heap is [strong, life, log, faults, said]: the Arc      *)
(* counts, the state of each value, the close calls issued so far, what    *)
(* the close calls of this teardown answer, and the native calls and       *)
(* error! lines the teardown has issued.  Rust runs Drop::drop first and   *)
(* then drops the fields in declaration order.                             *)

\* What a teardown meets: the descriptors whose close reports a failure,
\* and what tailscale_errmsg answers after a failed tailscale_close.
NoFaults == [ bad |-> {}, e |-> [ ret |-> 0, text |-> MsgDown ] ]

CloseFaults(S) ==
    { NoFaults } \cup { [ bad |-> b, e |-> e ] : b \in (SUBSET (S \ {0})) \ { {} }, e \in ErrReplies }

HeapWith(f) ==
    [ strong |-> strong, life |-> life, log |-> closeLog, faults |-> f, said |-> << >> ]

Heap == HeapWith(NoFaults)

\* An OwnedFd is dropped: the close call on descriptor fd is issued, its
\* result is not looked at, and the owning value is gone.
CloseFd(h, fd) == [ h EXCEPT !.log = Append(@, fd), !.life[fd] = "dropped" ]

\* Drop::drop of Tailscale: ret = tailscale_close(self.sd); if ret != 0,
\* get_error_message() and one error! line, with the message if it came.
CloseSession(h, sd) ==
    LET ret == IF sd \in h.faults.bad THEN -1 ELSE 0
        m == get_error_message(sd, h.faults.e)
        close == NativeCall("tailscale_close", sd, 0, << >>, ret)
        line == NativeCall("error!", sd, 0, IF m.ok THEN m.msg ELSE << >>, 0)
    IN  [ CloseFd(h, sd) EXCEPT
            !.said = IF ret = 0 THEN Append(@, close)
                     ELSE (Append(@, close) \o m.calls) \o << line >> ]

\* Drop::drop of Listener: nix::unistd::close(self.ln); an Err(e) is one
\* error! line.
CloseListener(h, l) ==
    LET ret == IF l \in h.faults.bad THEN -1 ELSE 0
        close == NativeCall("close", l, 0, << >>, ret)
        line == NativeCall("error!", l, 0, << >>, 0)
    IN  [ CloseFd(h, l) EXCEPT
            !.said = IF ret = 0 THEN Append(@, close) ELSE Append(@, close) \o << line >> ]

\* Mutant: the log sink is closed before tailscale_close is issued.
DropTailscaleValueSinkFirst(h, sd) ==
    CloseFd(IF ts_log_fd[sd] # 0 THEN CloseFd(h, ts_log_fd[sd]) ELSE h, sd)

\* Mutant: a failed tailscale_close ends the teardown there, as a panic or
\* a propagated error would; the log sink is not released.
DropTailscaleValueAborting(h, sd) ==
    LET h1 == CloseSession(h, sd)
    IN  IF ts_log_fd[sd] # 0 /\ sd \notin h.faults.bad THEN CloseFd(h1, ts_log_fd[sd]) ELSE h1

\* impl Drop for Tailscale: tailscale_close(self.sd), its result only logged;
\* then the fields sd and _log_fd (an OwnedFd closes its descriptor).
DropTailscaleValue(h, sd) ==
    LET h1 == CloseSession(h, sd)
    IN  IF ts_log_fd[sd] # 0 THEN CloseFd(h1, ts_log_fd[sd]) ELSE h1

\* Mutant: every holder that goes closes the session, as if it was not shared.
ReleaseTailscaleUnshared(h, sd) ==
    DropTailscaleValue([ h EXCEPT !.strong[sd] = @ - 1 ], sd)

\* Dropping one Arc<Tailscale>: the last one destroys the Tailscale.
ReleaseTailscale(h, sd) ==
    LET h1 == [ h EXCEPT !.strong[sd] = @ - 1 ]
    IN  IF h1.strong[sd] = 0 THEN DropTailscaleValue(h1, sd) ELSE h1

\* Mutant: the session reference is released before the listener is closed.
DropListenerValueLate(h, l) == CloseFd(ReleaseTailscale(h, ln_tailscale[l]), l)

\* impl Drop for Listener: close(self.ln), its result only logged; then the
\* fields ln and _tailscale.
DropListenerValue(h, l) == ReleaseTailscale(CloseListener(h, l), ln_tailscale[l])

\* Dropping one Arc<Listener>: the last one destroys the Listener.
ReleaseListener(h, l) ==
    LET h1 == [ h EXCEPT !.strong[l] = @ - 1 ]
    IN  IF h1.strong[l] = 0 THEN DropListenerValue(h1, l) ELSE h1

\* A Connection that closes its listener's descriptor with its own.
DropConnectionValueWithListener(h, c) ==
    LET h1 == IF conn_listener[c] # 0 THEN CloseFd(h, conn_listener[c]) ELSE h
    IN  [ CloseFd(h1, c) EXCEPT !.strong[c] = 0 ]

\* impl Drop for Connection (a debug line), then the fields in declaration
\* order: listener (Option<Arc<Listener>>), then conn (AsyncFd<OwnedFd>,
\* which deregisters and closes the descriptor).
DropConnectionValue(h, c) ==
    LET h1 == IF conn_listener[c] # 0 THEN ReleaseListener(h, conn_listener[c]) ELSE h
    IN  [ CloseFd(h1, c) EXCEPT !.strong[c] = 0 ]

\* The heap after an action becomes the next state; the step returns
\* nothing and has issued the calls and lines of the teardown.
SetHeap(h) ==
    /\ strong' = h.strong
    /\ life' = h.life
    /\ closeLog' = h.log
    /\ ReturnsCalling(NoOutcome, h.said)

----------------------------------------------------------------------------
(* Calls offloaded with tokio::task::spawn_blocking.  A call is in the bag *)
(* from the spawn until its result is taken by the awaiting task or, once  *)
(* the awaiting future is gone, until it returns.                          *)

\* The native call made in place, on the thread that polls the future.
InlineCall(op, fd, net, addr) ==
    [ op |-> op, fd |-> fd, net |-> net, addr |-> addr, on |-> "scheduler",
      awaited |-> TRUE, done |-> FALSE, joined |-> TRUE, ret |-> 0, out |-> 0 ]

\* A call handed to spawn_blocking, which runs it on a thread of the blocking
\* pool: the operation, the handle it was called on, the network and address
\* of listener() and connect(); whether its future is still awaited, whether
\* the JoinHandle is complete, whether it completed with a result (joined)
\* or with a JoinError, and the result.
BridgedCall(op, fd, net, addr) ==
    [ op |-> op, fd |-> fd, net |-> net, addr |-> addr, on |-> "pool",
      awaited |-> TRUE, done |-> FALSE, joined |-> TRUE, ret |-> 0, out |-> 0 ]

InFlight == BagToSet(calls)
AddCall(c) == calls (+) SetToBag({c})
RemoveCall(c) == calls (-) SetToBag({c})

\* A future that is still alive borrows the handle it was called on.
AwaitedOn(fd) == \E c \in InFlight : c.fd = fd /\ c.awaited

\* up(), listener(), connect(), accept() up to their .await: the native call
\* is handed to the blocking pool.  listener() and connect() first turn the
\* address into a CString.  At most n calls are in flight.
StartCallWithin(n, op, fd, net, addr) ==
    /\ held[fd] = 1
    /\ life[fd] = "live"
    /\ kind[fd] = IF op = "accept" THEN "listener" ELSE "session"
    /\ op \in { "up", "accept" } => net = "Tcp" /\ addr = AddrA
    /\ IF op \in { "listen", "dial" } /\ HasNul(addr)
       THEN /\ Returns(Outcome(op, "Utf8Error", 0))
            /\ UNCHANGED calls
       ELSE /\ BagCardinality(calls) < n
            /\ calls' = AddCall(BridgedCall(op, fd, net, addr))
            /\ Returns(NoOutcome)
    /\ UNCHANGED << builder, nextFd, kind, life, strong, held, ln_tailscale, conn_listener,
                    conn_origin, ts_log_fd, flags, started, errmsg, closeLog >>
    /\ UNCHANGED ioVars

StartCall(op, fd, net, addr) == StartCallWithin(MaxCalls, op, fd, net, addr)

\* The session a bridged call works under.
SessionOf(c) == IF c.op = "accept" THEN ln_tailscale[c.fd] ELSE c.fd

\* What tells one native call from another: the function and its arguments.
CallId(c) == [ op |-> c.op, fd |-> c.fd, net |-> c.net, addr |-> c.addr ]

\* No failed call: the session's error text is about nothing that is followed.
NoCall == [ op |-> "none", fd |-> 0, net |-> "Tcp", addr |-> << >> ]

\* The native call returns on the blocking pool.  listen, dial and accept
\* write a new descriptor on success; a call that fails leaves its error as
\* the session's last error, the one text tailscale_errmsg then writes.
\* The result waits in the JoinHandle, or is dropped with it when the
\* awaiting future is gone.  Descriptors up to n are handed out; whose
\* error the session's text is about is followed only if noted.
NativeReturnNoting(n, noted, c, ret) ==
    /\ c \in InFlight
    /\ ~c.done
    /\ ret = 0 /\ c.op # "up" => nextFd <= n
    /\ LET out == IF ret = 0 /\ c.op # "up" THEN nextFd ELSE 0
           sd == SessionOf(c)
       IN  /\ nextFd' = IF out # 0 THEN nextFd + 1 ELSE nextFd
           /\ kind' = IF out = 0 THEN kind
                      ELSE [ kind EXCEPT ![out] = IF c.op = "listen" THEN "listener" ELSE "conn" ]
           /\ life' = IF out = 0 THEN life ELSE [ life EXCEPT ![out] = "raw" ]
           /\ conn_origin' = IF out # 0 /\ c.op # "listen"
                             THEN [ conn_origin EXCEPT ![out] = sd ] ELSE conn_origin
           /\ started' = IF ret = 0 /\ c.op = "up"
                         THEN [ started EXCEPT ![sd] = TRUE ] ELSE started
           /\ errmsg' = IF ret # 0 /\ noted
                        THEN [ errmsg EXCEPT ![sd] = CallId(c) ] ELSE errmsg
           /\ calls' = IF c.awaited
                       THEN RemoveCall(c) (+)
                            SetToBag({ [ c EXCEPT !.done = TRUE, !.ret = ret, !.out = out ] })
                       ELSE RemoveCall(c)
    /\ Returns(NoOutcome)
    /\ UNCHANGED << builder, strong, held, ln_tailscale, conn_listener, ts_log_fd, flags,
                    closeLog >>
    /\ UNCHANGED ioVars

NativeReturnWithin(n, c, ret) == NativeReturnNoting(n, FALSE, c, ret)

NativeReturn(c, ret) == NativeReturnWithin(MaxFd, c, ret)

\* The blocking pool does not complete the call: the JoinHandle yields a
\* JoinError, and there is no result.
BridgeFails(c) ==
    /\ c \in InFlight
    /\ ~c.done
    /\ calls' = IF c.awaited
                THEN RemoveCall(c) (+) SetToBag({ [ c EXCEPT !.done = TRUE, !.joined = FALSE ] })
                ELSE RemoveCall(c)
    /\ Returns(NoOutcome)
    /\ UNCHANGED << builder, nextFd, kind, life, strong, held, ln_tailscale, conn_listener,
                    conn_origin, ts_log_fd, flags, started, errmsg, closeLog >>
    /\ UNCHANGED ioVars

\* Dropping the awaiting future stops the call.
CancelInterrupts(c) ==
    /\ c \in InFlight
    /\ c.awaited
    /\ calls' = RemoveCall(c)
    /\ Returns(NoOutcome)
    /\ UNCHANGED << builder, nextFd, kind, life, strong, held, ln_tailscale, conn_listener,
                    conn_origin, ts_log_fd, flags, started, errmsg, closeLog >>
    /\ UNCHANGED ioVars

\* The awaiting future is dropped: the pool still runs the call to its end.
Cancel(c) ==
    /\ c \in InFlight
    /\ c.awaited
    /\ calls' = IF c.done THEN RemoveCall(c)
                ELSE RemoveCall(c) (+) SetToBag({ [ c EXCEPT !.awaited = FALSE ] })
    /\ Returns(NoOutcome)
    /\ UNCHANGED << builder, nextFd, kind, life, strong, held, ln_tailscale, conn_listener,
                    conn_origin, ts_log_fd, flags, started, errmsg, closeLog >>
    /\ UNCHANGED ioVars

\* The failure built without the network and the address.
FailureWithoutContext(op, variant, lead, m) ==
    OutcomeWith(op, IF m.ok THEN variant ELSE m.res, 0,
                IF m.ok \/ m.res = "Tailscale" THEN << m.msg >> ELSE << >>)

\* let error_message = get_error_message()?; return Err(variant(lead.., error_message))
Failure(op, variant, lead, m) ==
    OutcomeWith(op, IF m.ok THEN variant ELSE m.res, 0,
                IF m.ok THEN Append(lead, m.msg)
                ELSE IF m.res = "Tailscale" THEN << m.msg >> ELSE << >>)

\* up() after its .await, reading a result the JoinHandle does not have.
ResumeUpUnjoined(c, e) ==
    /\ c \in InFlight /\ c.done /\ c.awaited /\ c.op = "up"
    /\ calls' = RemoveCall(c)
    /\ IF c.ret # 0
       THEN LET m == get_error_message(c.fd, e)
            IN  ReturnsCalling(Failure("up", "UpFailed", << >>, m), m.calls)
       ELSE Returns(Outcome("up", "Ok", 0))
    /\ UNCHANGED << builder, nextFd, kind, life, strong, held, ln_tailscale, conn_listener,
                    conn_origin, ts_log_fd, flags, started, errmsg, closeLog >>
    /\ UNCHANGED ioVars

\* up() after its .await
ResumeUp(c, e) ==
    /\ c \in InFlight /\ c.done /\ c.awaited /\ c.op = "up"
    /\ calls' = RemoveCall(c)
    /\ IF ~c.joined THEN Returns(Outcome("up", "SpawnBlockingFailed", 0))
       ELSE IF c.ret # 0
       THEN LET m == get_error_message(c.fd, e)
            IN  ReturnsCalling(Failure("up", "UpFailed", << >>, m), m.calls)
       ELSE Returns(Outcome("up", "Ok", 0))
    /\ UNCHANGED << builder, nextFd, kind, life, strong, held, ln_tailscale, conn_listener,
                    conn_origin, ts_log_fd, flags, started, errmsg, closeLog >>
    /\ UNCHANGED ioVars

\* listener() after its .await: Arc::new(Listener { ln, _tailscale: Arc::clone(self) })
ResumeListen(c, e) ==
    /\ c \in InFlight /\ c.done /\ c.awaited /\ c.op = "listen"
    /\ calls' = RemoveCall(c)
    /\ IF ~c.joined
       THEN /\ Returns(Outcome("listen", "SpawnBlockingFailed", 0))
            /\ UNCHANGED << life, strong, held, ln_tailscale >>
       ELSE IF c.ret # 0
       THEN /\ LET m == get_error_message(c.fd, e)
               IN  ReturnsCalling(Failure("listen", "ListenFailed", << as_str(c.net), c.addr >>, m),
                                  m.calls)
            /\ UNCHANGED << life, strong, held, ln_tailscale >>
       ELSE /\ Returns(Outcome("listen", "Ok", c.out))
            /\ life' = [ life EXCEPT ![c.out] = "live" ]
            /\ strong' = [ strong EXCEPT ![c.out] = 1, ![c.fd] = @ + 1 ]
            /\ held' = [ held EXCEPT ![c.out] = 1 ]
            /\ ln_tailscale' = [ ln_tailscale EXCEPT ![c.out] = c.fd ]
    /\ UNCHANGED << builder, nextFd, kind, conn_listener, conn_origin, ts_log_fd, flags,
                    started, errmsg, closeLog >>
    /\ UNCHANGED ioVars

\* Mutant: the result of fcntl(F_SETFL) is not checked.
NonBlockingSetupUnchecked(getflOk, setflOk, regOk) ==
    IF ~getflOk THEN [ res |-> "Tailscale", nonblock |-> FALSE, registered |-> FALSE, closed |-> FALSE ]
    ELSE IF ~regOk THEN [ res |-> "Tailscale", nonblock |-> setflOk, registered |-> FALSE, closed |-> TRUE ]
    ELSE [ res |-> "Ok", nonblock |-> setflOk, registered |-> TRUE, closed |-> FALSE ]

\* The tail shared by accept() and connect(): fcntl(F_GETFL), then
\* fcntl(F_SETFL, flags | O_NONBLOCK), then OwnedFd::from_raw_fd and
\* AsyncFd::new; each failure returns early with `?`.  Once the descriptor
\* is an OwnedFd, a failure drops it, which closes it.
NonBlockingSetup(getflOk, setflOk, regOk) ==
    IF ~getflOk THEN [ res |-> "Tailscale", nonblock |-> FALSE, registered |-> FALSE, closed |-> FALSE ]
    ELSE IF ~setflOk THEN [ res |-> "Tailscale", nonblock |-> FALSE, registered |-> FALSE, closed |-> FALSE ]
    ELSE IF ~regOk THEN [ res |-> "Tailscale", nonblock |-> TRUE, registered |-> FALSE, closed |-> TRUE ]
    ELSE [ res |-> "Ok", nonblock |-> TRUE, registered |-> TRUE, closed |-> FALSE ]

\* The Connection value accept() or connect() returns (listener 0: None), or
\* the early return of the set-up steps.
FinishConnection(op, fd, listener, su) ==
    /\ Returns(Outcome(op, su.res, IF su.res = "Ok" THEN fd ELSE 0))
    /\ flags' = [ flags EXCEPT ![fd] = [ nonblock |-> su.nonblock, registered |-> su.registered ] ]
    /\ closeLog' = IF su.closed THEN Append(closeLog, fd) ELSE closeLog
    /\ IF su.res = "Ok"
       THEN /\ life' = [ life EXCEPT ![fd] = "live" ]
            /\ held' = [ held EXCEPT ![fd] = 1 ]
            /\ conn_listener' = [ conn_listener EXCEPT ![fd] = listener ]
            /\ strong' = IF listener # 0
                         THEN [ strong EXCEPT ![fd] = 1, ![listener] = @ + 1 ]
                         ELSE [ strong EXCEPT ![fd] = 1 ]
       ELSE /\ life' = IF su.closed THEN [ life EXCEPT ![fd] = "dropped" ] ELSE life
            /\ UNCHANGED << held, conn_listener, strong >>

\* accept() after its .await: Connection { conn, listener: Some(Arc::clone(self)) }
ResumeAccept(c, e, getflOk, setflOk, regOk) ==
    /\ c \in InFlight /\ c.done /\ c.awaited /\ c.op = "accept"
    /\ calls' = RemoveCall(c)
    /\ IF ~c.joined
       THEN /\ Returns(Outcome("accept", "SpawnBlockingFailed", 0))
            /\ UNCHANGED << life, strong, held, conn_listener, flags, closeLog >>
       ELSE IF c.ret # 0
       THEN /\ LET m == get_error_message(ln_tailscale[c.fd], e)
               IN  ReturnsCalling(Failure("accept", "AcceptFailed", << >>, m), m.calls)
            /\ UNCHANGED << life, strong, held, conn_listener, flags, closeLog >>
       ELSE FinishConnection("accept", c.out, c.fd, NonBlockingSetup(getflOk, setflOk, regOk))
    /\ UNCHANGED << builder, nextFd, kind, ln_tailscale, conn_origin, ts_log_fd, started, errmsg >>
    /\ UNCHANGED ioVars

\* connect() after its .await: Connection { listener: None, conn }
ResumeDial(c, e, getflOk, setflOk, regOk) ==
    /\ c \in InFlight /\ c.done /\ c.awaited /\ c.op = "dial"
    /\ calls' = RemoveCall(c)
    /\ IF ~c.joined
       THEN /\ Returns(Outcome("dial", "SpawnBlockingFailed", 0))
            /\ UNCHANGED << life, strong, held, conn_listener, flags, closeLog >>
       ELSE IF c.ret # 0
       THEN /\ LET m == get_error_message(c.fd, e)
               IN  ReturnsCalling(Failure("dial", "DialFailed", << as_str(c.net), c.addr >>, m),
                                  m.calls)
            /\ UNCHANGED << life, strong, held, conn_listener, flags, closeLog >>
       ELSE FinishConnection("dial", c.out, 0, NonBlockingSetup(getflOk, setflOk, regOk))
    /\ UNCHANGED << builder, nextFd, kind, ln_tailscale, conn_origin, ts_log_fd, started, errmsg >>
    /\ UNCHANGED ioVars

----------------------------------------------------------------------------
(* The application gives up a handle.  A handle borrowed by a live future  *)
(* cannot be dropped.                                                      *)

\* drop(Arc<Tailscale>)
DropTailscale(sd) ==
    /\ kind[sd] = "session" /\ held[sd] = 1 /\ ~AwaitedOn(sd)
    /\ held' = [ held EXCEPT ![sd] = 0 ]
    /\ \E f \in CloseFaults({ sd }) : SetHeap(ReleaseTailscale(HeapWith(f), sd))
    /\ UNCHANGED << builder, nextFd, kind, ln_tailscale, conn_listener, conn_origin,
                    ts_log_fd, flags, started, errmsg, calls >>
    /\ UNCHANGED ioVars

\* drop(Arc<Listener>)
DropListener(l) ==
    /\ kind[l] = "listener" /\ held[l] = 1 /\ ~AwaitedOn(l)
    /\ held' = [ held EXCEPT ![l] = 0 ]
    /\ \E f \in CloseFaults({ l, ln_tailscale[l] }) : SetHeap(ReleaseListener(HeapWith(f), l))
    /\ UNCHANGED << builder, nextFd, kind, ln_tailscale, conn_listener, conn_origin,
                    ts_log_fd, flags, started, errmsg, calls >>
    /\ UNCHANGED ioVars

\* Mutant: a Connection can go while a read or write still uses it.
BorrowedNever(c) == FALSE

\* A read or write future, suspended or being polled, borrows the
\* Connection (Pin<&mut Self>).
Borrowed(c) == rd[c] # "idle" \/ wr[c] # "idle"

\* drop(Connection)
DropConnection(c) ==
    /\ kind[c] = "conn" /\ held[c] = 1
    /\ ~Borrowed(c)
    /\ held' = [ held EXCEPT ![c] = 0 ]
    /\ flags' = [ flags EXCEPT ![c].registered = FALSE ]
    /\ \E f \in CloseFaults(IF conn_listener[c] = 0 THEN {}
                               ELSE { conn_listener[c], ln_tailscale[conn_listener[c]] }) :
           SetHeap(DropConnectionValue(HeapWith(f), c))
    /\ UNCHANGED << builder, nextFd, kind, ln_tailscale, conn_listener, conn_origin,
                    ts_log_fd, started, errmsg, calls >>
    /\ UNCHANGED ioVars

----------------------------------------------------------------------------
(* Sessions, listeners and connections over their whole life. *)

Init ==
    /\ builder = BuilderDefault
    /\ nextFd = 1
    /\ kind = [ fd \in Fds |-> "free" ]
    /\ life = [ fd \in Fds |-> "none" ]
    /\ strong = [ fd \in Fds |-> 0 ]
    /\ held = [ fd \in Fds |-> 0 ]
    /\ ln_tailscale = [ fd \in Fds |-> 0 ]
    /\ conn_listener = [ fd \in Fds |-> 0 ]
    /\ conn_origin = [ fd \in Fds |-> 0 ]
    /\ ts_log_fd = [ fd \in Fds |-> 0 ]
    /\ flags = [ fd \in Fds |-> [ nonblock |-> FALSE, registered |-> FALSE ] ]
    /\ started = [ fd \in Fds |-> FALSE ]
    /\ errmsg = [ fd \in Fds |-> NoCall ]
    /\ calls = EmptyBag
    /\ closeLog = << >>
    /\ nativeLog = << >>
    /\ outcome = NoOutcome
    /\ ready = [ fd \in Fds |-> NotReady ]
    /\ rx = [ fd \in Fds |-> RxQuiet ]
    /\ tx = [ fd \in Fds |-> TxQuiet ]
    /\ rd = [ fd \in Fds |-> "idle" ]
    /\ wr = [ fd \in Fds |-> "idle" ]
    /\ attempt = NoAttempt

Ops == { "up", "listen", "dial", "accept" }

Next ==
    \/ Build
    \/ \E op \in Ops, fd \in Fds, net \in Networks, addr \in Addrs : StartCall(op, fd, net, addr)
    \/ \E c \in InFlight, ret \in RetCodes : NativeReturn(c, ret)
    \/ \E c \in InFlight : BridgeFails(c)
    \/ \E c \in InFlight : Cancel(c)
    \/ \E c \in InFlight, e \in ErrReplies : ResumeUp(c, e)
    \/ \E c \in InFlight, e \in ErrReplies : ResumeListen(c, e)
    \/ \E c \in InFlight, e \in ErrReplies, g, s, r \in BOOLEAN : ResumeAccept(c, e, g, s, r)
    \/ \E c \in InFlight, e \in ErrReplies, g, s, r \in BOOLEAN : ResumeDial(c, e, g, s, r)
    \/ \E fd \in Fds : DropTailscale(fd)
    \/ \E fd \in Fds : DropListener(fd)
    \/ \E fd \in Fds : DropConnection(fd)

Spec == Init /\ [][Next]_vars

----------------------------------------------------------------------------
(* The asynchronous read and write of a Connection: AsyncRead::poll_read   *)
(* and AsyncWrite::poll_write, one step per call they make.  A read is     *)
(* "idle" (no read future), "poll" (inside poll_read, before               *)
(* poll_read_ready), "guard" (holding a ready guard, before the OS read)   *)
(* or "pending" (poll_read returned Pending; the future is suspended).     *)

\* Bytes the OS buffers for a connection in one direction.
MaxData == 2

Min(a, b) == IF a < b THEN a ELSE b

\* A Connection the application owns.
Usable(c) == kind[c] = "conn" /\ held[c] = 1

\* poll_read and poll_write take Pin<&mut Self>: one of them runs at a time.
InPoll(c) == rd[c] \in { "poll", "guard" } \/ wr[c] \in { "poll", "guard" }

IoFrame ==
    UNCHANGED << builder, nextFd, kind, life, strong, held, ln_tailscale, conn_listener,
                 conn_origin, ts_log_fd, flags, started, errmsg, calls, closeLog >>

\* read(2) on a non-blocking socket with a buffer of len bytes.
OsRead(r, len) ==
    IF r.avail > 0
    THEN [ res |-> "Ok", n |-> Min(r.avail, len), rx |-> [ r EXCEPT !.avail = @ - Min(r.avail, len) ] ]
    ELSE IF r.err THEN [ res |-> "ECONNRESET", n |-> 0, rx |-> [ r EXCEPT !.err = FALSE ] ]
    ELSE IF r.eof THEN [ res |-> "Ok", n |-> 0, rx |-> r ]
    ELSE [ res |-> "EWOULDBLOCK", n |-> 0, rx |-> r ]

\* write(2) on a non-blocking socket with a buffer of len bytes.
OsWrite(t, len) ==
    IF t.err THEN [ res |-> "EPIPE", n |-> 0, tx |-> t ]
    ELSE IF t.room > 0
    THEN [ res |-> "Ok", n |-> Min(t.room, len), tx |-> [ t EXCEPT !.room = @ - Min(t.room, len) ] ]
    ELSE [ res |-> "EWOULDBLOCK", n |-> 0, tx |-> t ]

\* Mutant: a would-block result is returned to the caller like any error.
ReadMatchNoRetry(r) == IF r.res = "Ok" THEN "bytes" ELSE "error"

\* Mutant: a read of 0 bytes is taken for a would-block.
ReadMatchZeroRetries(r) ==
    IF r.res = "Ok" /\ r.n > 0 THEN "bytes"
    ELSE IF r.res \in { "Ok", "EWOULDBLOCK" } THEN "retry" ELSE "error"

\* The arms of match nix::unistd::read(fd, unfilled): Ok(n), Err(EWOULDBLOCK),
\* Err(e).
ReadMatch(r) ==
    IF r.res = "Ok" THEN "bytes" ELSE IF r.res = "EWOULDBLOCK" THEN "retry" ELSE "error"

\* Mutant: every failed write is retried, whatever the error.
WriteMatchRetriesAll(w) == IF w.res = "Ok" THEN "bytes" ELSE "retry"

\* The arms of match nix::unistd::write(fd, buf).
WriteMatch(w) ==
    IF w.res = "Ok" THEN "bytes" ELSE IF w.res = "EWOULDBLOCK" THEN "retry" ELSE "error"

\* A task starts a read: the first poll of a new read future.
ReadBegin(c) ==
    /\ Usable(c) /\ rd[c] = "idle" /\ ~InPoll(c)
    /\ rd' = [ rd EXCEPT ![c] = "poll" ]
    /\ Returns(NoOutcome)
    /\ UNCHANGED << ready, rx, tx, wr >>
    /\ IoFrame

\* The runtime polls the suspended read again.
ReadRepoll(c) ==
    /\ Usable(c) /\ rd[c] = "pending" /\ ~InPoll(c)
    /\ rd' = [ rd EXCEPT ![c] = "poll" ]
    /\ Returns(NoOutcome)
    /\ UNCHANGED << ready, rx, tx, wr >>
    /\ IoFrame

\* Mutant: poll_read goes on to the OS read whether or not the descriptor
\* is ready, and never suspends.
ReadReadyUnguarded(c, driverOk) ==
    /\ rd[c] = "poll"
    /\ IF ~driverOk
       THEN /\ rd' = [ rd EXCEPT ![c] = "idle" ]
            /\ Returns(Outcome("poll_read", "DriverError", 0))
       ELSE /\ rd' = [ rd EXCEPT ![c] = "guard" ]
            /\ Returns(NoOutcome)
    /\ UNCHANGED << ready, rx, tx, wr >>
    /\ IoFrame

\* match self.conn.poll_read_ready(cx): a guard, an error of the I/O driver,
\* or Pending.
ReadReady(c, driverOk) ==
    /\ rd[c] = "poll"
    /\ IF ~driverOk
       THEN /\ rd' = [ rd EXCEPT ![c] = "idle" ]
            /\ Returns(Outcome("poll_read", "DriverError", 0))
       ELSE IF ready[c].read
       THEN /\ rd' = [ rd EXCEPT ![c] = "guard" ]
            /\ Returns(NoOutcome)
       ELSE /\ rd' = [ rd EXCEPT ![c] = "pending" ]
            /\ Returns(Outcome("poll_read", "Pending", 0))
    /\ UNCHANGED << ready, rx, tx, wr >>
    /\ IoFrame

\* match nix::unistd::read(fd, unfilled): Ok(n) returns n bytes, EWOULDBLOCK
\* clears the readiness and loops, another error is returned.
ReadAttempt(c, len) ==
    /\ rd[c] = "guard"
    /\ LET r == OsRead(rx[c], len)
           a == Attempt("poll_read", c, r.res, r.n)
       IN  /\ rx' = [ rx EXCEPT ![c] = r.rx ]
           /\ IF ReadMatch(r) = "bytes"
              THEN /\ rd' = [ rd EXCEPT ![c] = "idle" ]
                   /\ ReturnsAfter(Outcome("poll_read", "Ok", r.n), a)
                   /\ UNCHANGED ready
              ELSE IF ReadMatch(r) = "retry"
              THEN /\ ready' = [ ready EXCEPT ![c].read = FALSE ]
                   /\ rd' = [ rd EXCEPT ![c] = "poll" ]
                   /\ ReturnsAfter(NoOutcome, a)
              ELSE /\ rd' = [ rd EXCEPT ![c] = "idle" ]
                   /\ ReturnsAfter(Outcome("poll_read", r.res, 0), a)
                   /\ UNCHANGED ready
    /\ UNCHANGED << tx, wr >>
    /\ IoFrame

\* The suspended read future is dropped, closing the descriptor with it.
ReadCancelCloses(c) ==
    /\ rd[c] = "pending"
    /\ rd' = [ rd EXCEPT ![c] = "idle" ]
    /\ Returns(Outcome("read_dropped", "none", c))
    /\ closeLog' = Append(closeLog, c)
    /\ UNCHANGED << ready, rx, tx, wr >>
    /\ UNCHANGED << builder, nextFd, kind, life, strong, held, ln_tailscale, conn_listener,
                    conn_origin, ts_log_fd, flags, started, errmsg, calls >>

\* The suspended read future is dropped: nothing is returned, the step is
\* recorded as the drop of a read of c.
ReadCancel(c) ==
    /\ rd[c] = "pending"
    /\ rd' = [ rd EXCEPT ![c] = "idle" ]
    /\ Returns(Outcome("read_dropped", "none", c))
    /\ UNCHANGED << ready, rx, tx, wr >>
    /\ IoFrame

WriteBegin(c) ==
    /\ Usable(c) /\ wr[c] = "idle" /\ ~InPoll(c)
    /\ wr' = [ wr EXCEPT ![c] = "poll" ]
    /\ Returns(NoOutcome)
    /\ UNCHANGED << ready, rx, tx, rd >>
    /\ IoFrame

WriteRepoll(c) ==
    /\ Usable(c) /\ wr[c] = "pending" /\ ~InPoll(c)
    /\ wr' = [ wr EXCEPT ![c] = "poll" ]
    /\ Returns(NoOutcome)
    /\ UNCHANGED << ready, rx, tx, rd >>
    /\ IoFrame

\* match self.conn.poll_write_ready(cx)
WriteReady(c, driverOk) ==
    /\ wr[c] = "poll"
    /\ IF ~driverOk
       THEN /\ wr' = [ wr EXCEPT ![c] = "idle" ]
            /\ Returns(Outcome("poll_write", "DriverError", 0))
       ELSE IF ready[c].write
       THEN /\ wr' = [ wr EXCEPT ![c] = "guard" ]
            /\ Returns(NoOutcome)
       ELSE /\ wr' = [ wr EXCEPT ![c] = "pending" ]
            /\ Returns(Outcome("poll_write", "Pending", 0))
    /\ UNCHANGED << ready, rx, tx, rd >>
    /\ IoFrame

\* match nix::unistd::write(fd, buf)
WriteAttempt(c, len) ==
    /\ wr[c] = "guard"
    /\ LET w == OsWrite(tx[c], len)
           a == Attempt("poll_write", c, w.res, w.n)
       IN  /\ tx' = [ tx EXCEPT ![c] = w.tx ]
           /\ IF WriteMatch(w) = "bytes"
              THEN /\ wr' = [ wr EXCEPT ![c] = "idle" ]
                   /\ ReturnsAfter(Outcome("poll_write", "Ok", w.n), a)
                   /\ UNCHANGED ready
              ELSE IF WriteMatch(w) = "retry"
              THEN /\ ready' = [ ready EXCEPT ![c].write = FALSE ]
                   /\ wr' = [ wr EXCEPT ![c] = "poll" ]
                   /\ ReturnsAfter(NoOutcome, a)
              ELSE /\ wr' = [ wr EXCEPT ![c] = "idle" ]
                   /\ ReturnsAfter(Outcome("poll_write", w.res, 0), a)
                   /\ UNCHANGED ready
    /\ UNCHANGED << rx, rd >>
    /\ IoFrame

\* The suspended write future is dropped.
WriteCancel(c) ==
    /\ wr[c] = "pending"
    /\ wr' = [ wr EXCEPT ![c] = "idle" ]
    /\ Returns(Outcome("write_dropped", "none", c))
    /\ UNCHANGED << ready, rx, tx, rd >>
    /\ IoFrame

\* poll_flush and poll_shutdown: Poll::Ready(Ok(())), nothing else.
PollFlush(c) ==
    /\ Usable(c) /\ ~InPoll(c)
    /\ Returns(Outcome("poll_flush", "Ok", 0))
    /\ UNCHANGED ioVars
    /\ IoFrame

\* Mutant: shutdown closes the descriptor itself.
PollShutdownCloses(c) ==
    /\ Usable(c) /\ ~InPoll(c)
    /\ closeLog' = Append(closeLog, c)
    /\ Returns(Outcome("poll_shutdown", "Ok", 0))
    /\ UNCHANGED ioVars
    /\ UNCHANGED << builder, nextFd, kind, life, strong, held, ln_tailscale, conn_listener,
                    conn_origin, ts_log_fd, flags, started, errmsg, calls >>

PollShutdown(c) ==
    /\ Usable(c) /\ ~InPoll(c)
    /\ Returns(Outcome("poll_shutdown", "Ok", 0))
    /\ UNCHANGED ioVars
    /\ IoFrame

\* impl Read for Connection: read(&mut self, buf) is nix::unistd::read on
\* the descriptor, its errno turned into an io::Error; no readiness is
\* looked at.  &mut self: no read or write future of c is alive.
StdRead(c, len) ==
    /\ Usable(c) /\ ~Borrowed(c)
    /\ LET r == OsRead(rx[c], len)
       IN  /\ rx' = [ rx EXCEPT ![c] = r.rx ]
           /\ ReturnsAfter(Outcome("read", r.res, r.n), Attempt("read", c, r.res, r.n))
    /\ UNCHANGED << ready, tx, rd, wr >>
    /\ IoFrame

\* impl Write for Connection: write(&mut self, buf) is nix::unistd::write.
StdWrite(c, len) ==
    /\ Usable(c) /\ ~Borrowed(c)
    /\ LET w == OsWrite(tx[c], len)
       IN  /\ tx' = [ tx EXCEPT ![c] = w.tx ]
           /\ ReturnsAfter(Outcome("write", w.res, w.n), Attempt("write", c, w.res, w.n))
    /\ UNCHANGED << ready, rx, rd, wr >>
    /\ IoFrame

\* The I/O driver records a readiness event of the descriptor; an event may
\* come with nothing to read or no room to write.
Notify(c, dir) ==
    /\ Usable(c) /\ flags[c].registered
    /\ ~ready[c][dir]
    /\ ready' = [ ready EXCEPT ![c][dir] = TRUE ]
    /\ Returns(NoOutcome)
    /\ UNCHANGED << rx, tx, rd, wr >>
    /\ IoFrame

\* The peer and the network: bytes arrive, the peer closes, the socket
\* fails, the send buffer drains.
PeerSend(c) ==
    /\ Usable(c) /\ rx[c].avail < MaxData /\ ~rx[c].eof
    /\ rx' = [ rx EXCEPT ![c].avail = @ + 1 ]
    /\ Returns(NoOutcome)
    /\ UNCHANGED << ready, tx, rd, wr >>
    /\ IoFrame

PeerClose(c) ==
    /\ Usable(c) /\ ~rx[c].eof
    /\ rx' = [ rx EXCEPT ![c].eof = TRUE ]
    /\ Returns(NoOutcome)
    /\ UNCHANGED << ready, tx, rd, wr >>
    /\ IoFrame

SocketError(c) ==
    /\ Usable(c) /\ ~rx[c].err /\ ~tx[c].err
    /\ rx' = [ rx EXCEPT ![c].err = TRUE ]
    /\ tx' = [ tx EXCEPT ![c].err = TRUE ]
    /\ Returns(NoOutcome)
    /\ UNCHANGED << ready, rd, wr >>
    /\ IoFrame

Drain(c) ==
    /\ Usable(c) /\ tx[c].room < MaxData
    /\ tx' = [ tx EXCEPT ![c].room = @ + 1 ]
    /\ Returns(NoOutcome)
    /\ UNCHANGED << ready, rx, rd, wr >>
    /\ IoFrame

\* A session with one connection: dialed (descriptor 2), or accepted
\* (descriptor 3) from a listener (descriptor 2) the application still holds.
InitIO ==
    /\ builder = BuilderDefault
    /\ \E accepted \in BOOLEAN :
        LET l == IF accepted THEN 2 ELSE 0
            c == IF accepted THEN 3 ELSE 2
        IN  /\ nextFd = c + 1
            /\ kind = [ fd \in Fds |-> IF fd = 1 THEN "session" ELSE IF fd = l THEN "listener"
                                       ELSE IF fd = c THEN "conn" ELSE "free" ]
            /\ life = [ fd \in Fds |-> IF fd <= c THEN "live" ELSE "none" ]
            /\ strong = [ fd \in Fds |-> IF fd = c THEN 1 ELSE IF fd = l THEN 2
                                         ELSE IF fd = 1 THEN (IF accepted THEN 2 ELSE 1) ELSE 0 ]
            /\ held = [ fd \in Fds |-> IF fd <= c THEN 1 ELSE 0 ]
            /\ ln_tailscale = [ fd \in Fds |-> IF fd = l THEN 1 ELSE 0 ]
            /\ conn_listener = [ fd \in Fds |-> IF fd = c THEN l ELSE 0 ]
            /\ conn_origin = [ fd \in Fds |-> IF fd = c THEN 1 ELSE 0 ]
            /\ flags = [ fd \in Fds |-> [ nonblock |-> fd = c, registered |-> fd = c ] ]
    /\ ts_log_fd = [ fd \in Fds |-> 0 ]
    /\ started = [ fd \in Fds |-> fd = 1 ]
    /\ errmsg = [ fd \in Fds |-> NoCall ]
    /\ calls = EmptyBag
    /\ closeLog = << >>
    /\ nativeLog = << >>
    /\ outcome = NoOutcome
    /\ ready = [ fd \in Fds |-> NotReady ]
    /\ rx = [ fd \in Fds |-> RxQuiet ]
    /\ tx = [ fd \in Fds |-> TxQuiet ]
    /\ rd = [ fd \in Fds |-> "idle" ]
    /\ wr = [ fd \in Fds |-> "idle" ]
    /\ attempt = NoAttempt

BufLens == 1..MaxData

NextIO ==
    \/ \E c \in Fds : ReadBegin(c)
    \/ \E c \in Fds : ReadRepoll(c)
    \/ \E c \in Fds, ok \in BOOLEAN : ReadReady(c, ok)
    \/ \E c \in Fds, len \in BufLens : ReadAttempt(c, len)
    \/ \E c \in Fds : ReadCancel(c)
    \/ \E c \in Fds : WriteBegin(c)
    \/ \E c \in Fds : WriteRepoll(c)
    \/ \E c \in Fds, ok \in BOOLEAN : WriteReady(c, ok)
    \/ \E c \in Fds, len \in BufLens : WriteAttempt(c, len)
    \/ \E c \in Fds : WriteCancel(c)
    \/ \E c \in Fds : PollFlush(c)
    \/ \E c \in Fds : PollShutdown(c)
    \/ \E c \in Fds, len \in BufLens : StdRead(c, len)
    \/ \E c \in Fds, len \in BufLens : StdWrite(c, len)
    \/ \E c \in Fds, dir \in { "read", "write" } : Notify(c, dir)
    \/ \E c \in Fds : PeerSend(c)
    \/ \E c \in Fds : PeerClose(c)
    \/ \E c \in Fds : SocketError(c)
    \/ \E c \in Fds : Drain(c)
    \/ \E c \in Fds : DropConnection(c)

SpecIO == InitIO /\ [][NextIO]_vars

----------------------------------------------------------------------------
(* The address queries: Tailscale::ips and Connection::remote_addr, with   *)
(* the parsers of std::net they call.  Texts are byte strings.             *)

\* Number of comma-separated parts in a text tailscale_getips writes.
MaxParts == 3

IsDigit(c) == c \in 48..57
IsHexDigit(c) == c \in 48..57 \/ c \in 97..102 \/ c \in 65..70
HexValue(c) == IF c \in 48..57 THEN c - 48 ELSE IF c \in 97..102 THEN c - 87 ELSE c - 55

\* The number a string of digits denotes in the given radix.
RECURSIVE Number(_, _)
Number(s, radix) ==
    IF s = << >> THEN 0
    ELSE Number(SubSeq(s, 1, Len(s) - 1), radix) * radix + HexValue(s[Len(s)])

\* Position of the first occurrence of byte c in s (0: none).
Find(s, c) ==
    IF \E i \in DOMAIN s : s[i] = c
    THEN CHOOSE i \in DOMAIN s : s[i] = c /\ \A j \in 1..(i - 1) : s[j] # c
    ELSE 0

\* The text before and after the separator at position i (0: none).
SplitAt(s, i) ==
    [ found |-> i # 0,
      left |-> IF i = 0 THEN s ELSE SubSeq(s, 1, i - 1),
      right |-> IF i = 0 THEN << >> ELSE SubSeq(s, i + 1, Len(s)) ]

\* str::split_once(','): the text before and after the first separator.
split_once(s, c) == SplitAt(s, Find(s, c))

\* The fields of s between the occurrences of byte c.
RECURSIVE Fields(_, _)
FieldsAfter(p, s, c) == IF p.found THEN << p.left >> \o Fields(p.right, c) ELSE << s >>
Fields(s, c) == FieldsAfter(split_once(s, c), s, c)

\* One octet of Ipv4Addr::from_str: 1 to 3 decimal digits, no leading zero
\* before another digit, at most 255.
IsOctet(f) ==
    /\ Len(f) \in 1..3
    /\ \A i \in DOMAIN f : IsDigit(f[i])
    /\ Len(f) > 1 => f[1] # 48
    /\ Number(f, 10) <= 255

\* The four octets of the dot-separated fields f, if that is what they are.
Octets(f, ok) ==
    [ ok |-> ok, octets |-> IF ok THEN [ i \in 1..4 |-> Number(f[i], 10) ] ELSE << >> ]
OctetsOf(f) == Octets(f, Len(f) = 4 /\ \A i \in 1..4 : IsOctet(f[i]))

\* Ipv4Addr::from_str: four octets separated by dots.
ParseIpv4(s) == OctetsOf(Fields(s, 46))

\* One group of Ipv6Addr::from_str: 1 to 4 hexadecimal digits.
IsGroup(f) == Len(f) \in 1..4 /\ \A i \in DOMAIN f : IsHexDigit(f[i])

\* The groups of the colon-separated fields f, the last of which may be a
\* dotted IPv4 address (last) that stands for two groups.
Groups(f, n, last, o, ok) ==
    [ ok |-> ok,
      v4 |-> last.ok,
      groups |-> IF ~ok THEN << >>
                 ELSE [ i \in 1..(n - 1) |-> Number(f[i], 16) ]
                      \o (IF last.ok THEN << o[1] * 256 + o[2], o[3] * 256 + o[4] >>
                          ELSE << Number(f[n], 16) >>) ]
GroupsWith(f, n, last) ==
    Groups(f, n, last, last.octets,
           (\A i \in 1..(n - 1) : IsGroup(f[i])) /\ (IsGroup(f[n]) \/ last.ok))
GroupsOf(f) == GroupsWith(f, Len(f), ParseIpv4(f[Len(f)]))

\* A run of groups separated by single colons.  An empty text is no group.
GroupList(s) ==
    IF s = << >> THEN [ ok |-> TRUE, v4 |-> FALSE, groups |-> << >> ]
    ELSE GroupsOf(Fields(s, 58))

\* Position of the first "::" in s (0: none).
FindGap(s) ==
    IF \E i \in 1..(Len(s) - 1) : s[i] = 58 /\ s[i + 1] = 58
    THEN CHOOSE i \in 1..(Len(s) - 1) :
             /\ s[i] = 58 /\ s[i + 1] = 58
             /\ \A j \in 1..(i - 1) : ~(s[j] = 58 /\ s[j + 1] = 58)
    ELSE 0

\* Eight groups, or a head h and a tail t of at most seven groups around the
\* "::" at position i, z zero groups between them; no IPv4 part before the "::".
Compose(s, i, h, t, z) ==
    [ ok |-> IF i = 0 THEN s # << >> /\ h.ok /\ z = 0
             ELSE h.ok /\ ~h.v4 /\ t.ok /\ z >= 1,
      zeros |-> z, head |-> h.groups, tail |-> t.groups ]
Around(s, i, h, t) == Compose(s, i, h, t, 8 - Len(h.groups) - Len(t.groups))
Expand(r) ==
    [ ok |-> r.ok,
      groups |-> IF r.ok THEN r.head \o [ k \in 1..r.zeros |-> 0 ] \o r.tail ELSE << >> ]
ParseAround(s, i) ==
    Expand(Around(s, i, GroupList(IF i = 0 THEN s ELSE SubSeq(s, 1, i - 1)),
                        GroupList(IF i = 0 THEN << >> ELSE SubSeq(s, i + 2, Len(s)))))

\* Ipv6Addr::from_str
ParseIpv6(s) == ParseAround(s, FindGap(s))

\* Texts of one address, well formed or not.
PartV4 == << 49, 48, 48, 46, 54, 52, 46, 48, 46, 49 >>
PartV6 == << 102, 100, 55, 97, 58, 49, 49, 53, 99, 58, 97, 49, 101, 48, 58, 58, 49 >>
PartMapped == << 58, 58, 102, 102, 102, 102, 58, 49, 46, 50, 46, 51, 46, 52 >>
PartZero == << 48, 49, 46, 50, 46, 51, 46, 52 >>
PartBig == << 50, 53, 54, 46, 48, 46, 48, 46, 49 >>
PartGarbage == << 103, 97, 114, 98, 97, 103, 101 >>
\* The parts of the texts tailscale_getips writes, and the texts
\* tailscale_getremoteaddr writes.
Parts == { PartV4, PartV6, PartGarbage, << >> }
AddrTexts == { PartV4, PartV6, PartMapped, PartZero, PartBig, PartGarbage, << >> }

\* The parts of a list joined by commas.
RECURSIVE Join(_)
Join(ps) == IF Len(ps) = 1 THEN ps[1] ELSE ps[1] \o << 44 >> \o Join(Tail(ps))

\* Texts of up to n parts joined by commas.
Joined(n) == { Join(ps) : ps \in UNION { [ 1..k -> Parts ] : k \in 1..n } }

\* What an address query answers: its return code and the text it leaves in
\* the buffer (up to the NUL).
QueryReply(ret, text) == [ ret |-> ret, text |-> text ]
IpsReplies == { QueryReply(0, t) : t \in Joined(MaxParts) \cup { MsgNotUtf8 } } \cup { QueryReply(-1, << >>) }
AddrReplies == { QueryReply(0, t) : t \in AddrTexts \cup { MsgNotUtf8 } } \cup { QueryReply(-1, << >>) }

\* ips() parsing the second address before the first.
ipsSecondFirst(sd, q, e) ==
    LET call == NativeCall("tailscale_getips", sd, 0, q.text, q.ret)
        m == get_error_message(sd, e)
        p == split_once(q.text, 44)
        ipv4 == ParseIpv4(p.left)
        ipv6 == ParseIpv6(p.right)
    IN  IF q.ret # 0
        THEN [ out |-> Failure("ips", "Tailscale", << >>, m), calls |-> << call >> \o m.calls ]
        ELSE [ calls |-> << call >>,
               out |-> IF ~IsUtf8(q.text) THEN Outcome("ips", "Utf8ContentError", 0)
                       ELSE IF q.text = << >> THEN Outcome("ips", "Ok", 0)
                       ELSE IF ~p.found THEN OutcomeWith("ips", "InvalidIpAdresses", 0, << q.text >>)
                       ELSE IF ~ipv6.ok THEN OutcomeWith("ips", "AddrParseError", 0, << p.right >>)
                       ELSE IF ~ipv4.ok THEN OutcomeWith("ips", "AddrParseError", 0, << p.left >>)
                       ELSE OutcomeWith("ips", "Ok", 0, << ipv4.octets, ipv6.groups >>) ]

\* pub fn ips(&self) -> Result<Option<IpPair>>, tailscale_getips answering
\* q and tailscale_errmsg answering e.
ips(sd, q, e) ==
    LET call == NativeCall("tailscale_getips", sd, 0, q.text, q.ret)
        m == get_error_message(sd, e)
        p == split_once(q.text, 44)
        ipv4 == ParseIpv4(p.left)
        ipv6 == ParseIpv6(p.right)
    IN  IF q.ret # 0
        THEN [ out |-> Failure("ips", "Tailscale", << >>, m), calls |-> << call >> \o m.calls ]
        ELSE [ calls |-> << call >>,
               out |-> IF ~IsUtf8(q.text) THEN Outcome("ips", "Utf8ContentError", 0)
                       ELSE IF q.text = << >> THEN Outcome("ips", "Ok", 0)
                       ELSE IF ~p.found THEN OutcomeWith("ips", "InvalidIpAdresses", 0, << q.text >>)
                       ELSE IF ~ipv4.ok THEN OutcomeWith("ips", "AddrParseError", 0, << p.left >>)
                       ELSE IF ~ipv6.ok THEN OutcomeWith("ips", "AddrParseError", 0, << p.right >>)
                       ELSE OutcomeWith("ips", "Ok", 0, << ipv4.octets, ipv6.groups >>) ]

QueryFrame ==
    /\ UNCHANGED << builder, nextFd, kind, life, strong, held, ln_tailscale, conn_listener,
                    conn_origin, ts_log_fd, flags, started, errmsg, calls, closeLog >>
    /\ UNCHANGED ioVars

\* tailscale_errmsg is called, and its answer read, only after a failure.
ErrReplyRead(q, e) == q.ret = 0 => e = [ ret |-> 0, text |-> MsgDown ]

Ips(sd, q, e) ==
    /\ kind[sd] = "session" /\ held[sd] = 1
    /\ ErrReplyRead(q, e)
    /\ LET r == ips(sd, q, e) IN ReturnsCalling(r.out, r.calls)
    /\ QueryFrame

\* remote_addr() querying whether or not the connection has a listener.
remote_addrAlwaysQueries(c, q, e) ==
    LET l == conn_listener[c]
        call == NativeCall("tailscale_getremoteaddr", l, c, q.text, q.ret)
        m == get_error_message(conn_origin[c], e)
        ipv4 == ParseIpv4(q.text)
        ipv6 == ParseIpv6(q.text)
    IN  IF q.ret # 0
        THEN [ out |-> Failure("remote_addr", "Tailscale", << >>, m), calls |-> << call >> \o m.calls ]
        ELSE [ calls |-> << call >>,
               out |-> IF ~IsUtf8(q.text) THEN Outcome("remote_addr", "Utf8ContentError", 0)
                       ELSE IF ipv4.ok
                       THEN OutcomeWith("remote_addr", "Ok", 0, << ipv4.octets >>)
                       ELSE IF ipv6.ok
                       THEN OutcomeWith("remote_addr", "Ok", 0, << ipv6.groups >>)
                       ELSE OutcomeWith("remote_addr", "AddrParseError", 0, << q.text >>) ]

\* pub fn remote_addr(&self) -> Result<Option<IpAddr>> of connection c,
\* tailscale_getremoteaddr answering q and tailscale_errmsg answering e.
remote_addr(c, q, e) ==
    LET l == conn_listener[c]
        call == NativeCall("tailscale_getremoteaddr", l, c, q.text, q.ret)
        m == get_error_message(ln_tailscale[l], e)
        ipv4 == ParseIpv4(q.text)
        ipv6 == ParseIpv6(q.text)
    IN  IF l = 0 THEN [ out |-> Outcome("remote_addr", "Ok", 0), calls |-> << >> ]
        ELSE IF q.ret # 0
        THEN [ out |-> Failure("remote_addr", "Tailscale", << >>, m), calls |-> << call >> \o m.calls ]
        ELSE [ calls |-> << call >>,
               out |-> IF ~IsUtf8(q.text) THEN Outcome("remote_addr", "Utf8ContentError", 0)
                       ELSE IF ipv4.ok
                       THEN OutcomeWith("remote_addr", "Ok", 0, << ipv4.octets >>)
                       ELSE IF ipv6.ok
                       THEN OutcomeWith("remote_addr", "Ok", 0, << ipv6.groups >>)
                       ELSE OutcomeWith("remote_addr", "AddrParseError", 0, << q.text >>) ]

RemoteAddr(c, q, e) ==
    /\ Usable(c) /\ ~Borrowed(c)
    /\ ErrReplyRead(q, e)
    /\ LET r == remote_addr(c, q, e) IN ReturnsCalling(r.out, r.calls)
    /\ QueryFrame

NextQuery ==
    \/ \E sd \in Fds, q \in IpsReplies, e \in ErrReplies : Ips(sd, q, e)
    \/ \E c \in Fds, q \in AddrReplies, e \in ErrReplies : RemoteAddr(c, q, e)
    \/ \E c \in Fds : DropConnection(c)

SpecQuery == InitIO /\ [][NextQuery]_vars

----------------------------------------------------------------------------
(* A server in the manner of examples/echo.rs: one task awaits up(),       *)
(* listener(), connect() or accept() while another reads a Connection.     *)
(* The tasks are polled by one scheduler thread; a native call that runs   *)
(* on that thread keeps it until the call returns.                         *)

\* No native call is running on the scheduler thread.
SchedulerFree == \A c \in InFlight : c.done \/ c.on = "pool"

\* A step of the task that reads Connection c.
ReadStep(c) ==
    \/ ReadBegin(c)
    \/ ReadRepoll(c)
    \/ \E ok \in BOOLEAN : ReadReady(c, ok)
    \/ \E len \in BufLens : ReadAttempt(c, len)

\* A step of the task that awaits the bridged operation.
BridgeStep ==
    \/ \E op \in Ops, fd \in Fds, net \in Networks : StartCall(op, fd, net, AddrA)
    \/ \E c \in InFlight : Cancel(c)
    \/ \E c \in InFlight, e \in ErrReplies : ResumeUp(c, e)
    \/ \E c \in InFlight, e \in ErrReplies : ResumeListen(c, e)
    \/ \E c \in InFlight, e \in ErrReplies, g, s, r \in BOOLEAN : ResumeAccept(c, e, g, s, r)
    \/ \E c \in InFlight, e \in ErrReplies, g, s, r \in BOOLEAN : ResumeDial(c, e, g, s, r)

\* What the scheduler thread runs, when it is free.
Scheduled == SchedulerFree /\ (BridgeStep \/ \E c \in Fds : ReadStep(c))

NextServe ==
    \/ Scheduled
    \/ \E c \in InFlight, ret \in RetCodes : NativeReturn(c, ret)
    \/ \E c \in InFlight : BridgeFails(c)
    \/ \E c \in Fds : Notify(c, "read")
    \/ \E c \in Fds : PeerSend(c)

\* The scheduler polls every task that can run; nothing obliges a native
\* call to return.
SpecServe ==
    InitIO /\ [][NextServe]_vars /\ \A c \in Fds : WF_vars(SchedulerFree /\ ReadStep(c))

----------------------------------------------------------------------------
(* A task that reads a Connection, the peer and the I/O driver.  The       *)
(* runtime goes on polling a read it has not dropped, and the driver       *)
(* delivers a readiness event for a descriptor whose readiness is clear;   *)
(* an event may be spurious.                                               *)

NextRead ==
    \/ \E c \in Fds : ReadStep(c)
    \/ \E c \in Fds : ReadCancel(c)
    \/ \E c \in Fds : Notify(c, "read")
    \/ \E c \in Fds : PeerSend(c)
    \/ \E c \in Fds : PeerClose(c)
    \/ \E c \in Fds : SocketError(c)
    \/ \E c \in Fds : DropConnection(c)

SpecRead ==
    /\ InitIO /\ [][NextRead]_vars
    /\ \A c \in Fds : WF_vars(ReadStep(c)) /\ WF_vars(Notify(c, "read"))

----------------------------------------------------------------------------
(* accept() on its own: a session that is up and one listener, whose       *)
(* accept() is called up to MaxAccepts times at once and in a row.         *)

InitAccept ==
    /\ builder = BuilderDefault
    /\ nextFd = 3
    /\ kind = [ fd \in Fds |-> IF fd = 1 THEN "session" ELSE IF fd = 2 THEN "listener" ELSE "free" ]
    /\ life = [ fd \in Fds |-> IF fd <= 2 THEN "live" ELSE "none" ]
    /\ strong = [ fd \in Fds |-> IF fd = 1 THEN 2 ELSE IF fd = 2 THEN 1 ELSE 0 ]
    /\ held = [ fd \in Fds |-> IF fd <= 2 THEN 1 ELSE 0 ]
    /\ ln_tailscale = [ fd \in Fds |-> IF fd = 2 THEN 1 ELSE 0 ]
    /\ conn_listener = [ fd \in Fds |-> 0 ]
    /\ conn_origin = [ fd \in Fds |-> 0 ]
    /\ flags = [ fd \in Fds |-> [ nonblock |-> FALSE, registered |-> FALSE ] ]
    /\ ts_log_fd = [ fd \in Fds |-> 0 ]
    /\ started = [ fd \in Fds |-> fd = 1 ]
    /\ errmsg = [ fd \in Fds |-> NoCall ]
    /\ calls = EmptyBag
    /\ closeLog = << >>
    /\ nativeLog = << >>
    /\ outcome = NoOutcome
    /\ ready = [ fd \in Fds |-> NotReady ]
    /\ rx = [ fd \in Fds |-> RxQuiet ]
    /\ tx = [ fd \in Fds |-> TxQuiet ]
    /\ rd = [ fd \in Fds |-> "idle" ]
    /\ wr = [ fd \in Fds |-> "idle" ]
    /\ attempt = NoAttempt

NextAccept ==
    \/ \E l \in Fds : StartCallWithin(MaxAccepts, "accept", l, "Tcp", AddrA)
    \/ \E c \in InFlight, ret \in RetCodes : NativeReturnWithin(AcceptFds, c, ret)
    \/ \E c \in InFlight : Cancel(c)
    \/ \E c \in InFlight, e \in ErrReplies, g, s, r \in BOOLEAN : ResumeAccept(c, e, g, s, r)
    \/ \E fd \in Fds : DropTailscale(fd)
    \/ \E fd \in Fds : DropListener(fd)
    \/ \E fd \in Fds : DropConnection(fd)

SpecAccept == InitAccept /\ [][NextAccept]_vars

----------------------------------------------------------------------------
(* Failures side by side: tasks that share a Session and its Listener     *)
(* await up(), listener(), connect() and accept(), up to MaxPending of    *)
(* them at once.  The Session has one last-error text; whose failure it   *)
(* is about is followed here.                                             *)

NextErr ==
    \/ \E op \in Ops, fd \in Fds, net \in Networks : StartCallWithin(MaxPending, op, fd, net, AddrA)
    \/ \E c \in InFlight, ret \in RetCodes : NativeReturnNoting(AcceptFds, TRUE, c, ret)
    \/ \E c \in InFlight, e \in ErrReplies : ResumeUp(c, e)
    \/ \E c \in InFlight, e \in ErrReplies : ResumeListen(c, e)
    \/ \E c \in InFlight, e \in ErrReplies, g, s, r \in BOOLEAN : ResumeAccept(c, e, g, s, r)
    \/ \E c \in InFlight, e \in ErrReplies, g, s, r \in BOOLEAN : ResumeDial(c, e, g, s, r)

SpecErr == InitAccept /\ [][NextErr]_vars

----------------------------------------------------------------------------
(* Teardown: a Session built with a log destination, the calls on it and   *)
(* on its Listener, and the handles dropped in any order.                  *)

InitTeardown ==
    /\ builder = BuilderDefault
    /\ nextFd = 3
    /\ kind = [ fd \in Fds |-> IF fd = 1 THEN "logfd" ELSE IF fd = 2 THEN "session" ELSE "free" ]
    /\ life = [ fd \in Fds |-> IF fd <= 2 THEN "live" ELSE "none" ]
    /\ strong = [ fd \in Fds |-> IF fd = 2 THEN 1 ELSE 0 ]
    /\ held = [ fd \in Fds |-> IF fd = 2 THEN 1 ELSE 0 ]
    /\ ln_tailscale = [ fd \in Fds |-> 0 ]
    /\ conn_listener = [ fd \in Fds |-> 0 ]
    /\ conn_origin = [ fd \in Fds |-> 0 ]
    /\ flags = [ fd \in Fds |-> [ nonblock |-> FALSE, registered |-> FALSE ] ]
    /\ ts_log_fd = [ fd \in Fds |-> IF fd = 2 THEN 1 ELSE 0 ]
    /\ started = [ fd \in Fds |-> FALSE ]
    /\ errmsg = [ fd \in Fds |-> NoCall ]
    /\ calls = EmptyBag
    /\ closeLog = << >>
    /\ nativeLog = << >>
    /\ outcome = NoOutcome
    /\ ready = [ fd \in Fds |-> NotReady ]
    /\ rx = [ fd \in Fds |-> RxQuiet ]
    /\ tx = [ fd \in Fds |-> TxQuiet ]
    /\ rd = [ fd \in Fds |-> "idle" ]
    /\ wr = [ fd \in Fds |-> "idle" ]
    /\ attempt = NoAttempt

NextTeardown ==
    \/ \E op \in { "up", "listen" }, fd \in Fds, net \in Networks : StartCall(op, fd, net, AddrA)
    \/ \E c \in InFlight, ret \in RetCodes : NativeReturn(c, ret)
    \/ \E c \in InFlight : Cancel(c)
    \/ \E c \in InFlight, e \in ErrReplies : ResumeUp(c, e)
    \/ \E c \in InFlight, e \in ErrReplies : ResumeListen(c, e)
    \/ \E fd \in Fds : DropTailscale(fd)
    \/ \E fd \in Fds : DropListener(fd)

SpecTeardown == InitTeardown /\ [][NextTeardown]_vars

----------------------------------------------------------------------------
(* The builder's setters and repeated build() calls. *)

BuildFrame ==
    /\ UNCHANGED << kind, life, strong, held, ln_tailscale, conn_listener, conn_origin,
                    ts_log_fd, flags, started, errmsg, calls, closeLog, nextFd >>
    /\ UNCHANGED ioVars

\* pub fn ephemeral(&mut self, ephemeral: bool)
SetEphemeral(v) ==
    /\ builder' = [ builder EXCEPT !.ephemeral = v ]
    /\ Returns(NoOutcome)
    /\ BuildFrame

\* pub fn hostname(&mut self, hostname: impl Into<String>)
SetHostname(t) ==
    /\ builder' = [ builder EXCEPT !.hostname = Some(t) ]
    /\ Returns(NoOutcome)
    /\ BuildFrame

\* pub fn dir(&mut self, dir: impl Into<PathBuf>)
SetDir(t) ==
    /\ builder' = [ builder EXCEPT !.dir = Some(t) ]
    /\ Returns(NoOutcome)
    /\ BuildFrame

\* pub fn auth_key(&mut self, key: impl Into<String>)
SetAuthKey(t) ==
    /\ builder' = [ builder EXCEPT !.auth_key = Some(t) ]
    /\ Returns(NoOutcome)
    /\ BuildFrame

\* Assigning log_config drops the old value: a LogConfig::Fd closes its descriptor.
ReplaceLogConfig(new) ==
    /\ builder' = [ builder EXCEPT !.log_config = new ]
    /\ IF builder.log_config.mode = "Fd"
       THEN /\ closeLog' = Append(closeLog, builder.log_config.fd)
            /\ life' = [ life EXCEPT ![builder.log_config.fd] = "dropped", ![new.fd] =
                           IF new.mode = "Fd" THEN "live" ELSE @ ]
       ELSE /\ closeLog' = closeLog
            /\ life' = IF new.mode = "Fd" THEN [ life EXCEPT ![new.fd] = "live" ] ELSE life

\* pub fn log_destination(&mut self, destination: impl Into<OwnedFd>), with a
\* file the application has just opened.
SetLogDestination ==
    /\ nextFd <= MaxFd
    /\ nextFd' = nextFd + 1
    /\ kind' = [ kind EXCEPT ![nextFd] = "logfd" ]
    /\ ReplaceLogConfig(LogFd(nextFd))
    /\ Returns(NoOutcome)
    /\ UNCHANGED << strong, held, ln_tailscale, conn_listener, conn_origin, ts_log_fd,
                    flags, started, errmsg, calls >>
    /\ UNCHANGED ioVars

\* pub fn log_discard(&mut self)
SetLogDiscard ==
    /\ ReplaceLogConfig(LogDiscard)
    /\ Returns(NoOutcome)
    /\ UNCHANGED << nextFd, kind, strong, held, ln_tailscale, conn_listener, conn_origin,
                    ts_log_fd, flags, started, errmsg, calls >>
    /\ UNCHANGED ioVars

NextBuild ==
    \/ \E v \in BOOLEAN : SetEphemeral(v)
    \/ \E t \in Texts : SetHostname(t)
    \/ \E t \in Texts : SetDir(t)
    \/ \E t \in Texts : SetAuthKey(t)
    \/ SetLogDestination
    \/ SetLogDiscard
    \/ Build
    \/ \E fd \in Fds : DropTailscale(fd)

SpecBuild == Init /\ [][NextBuild]_vars

----------------------------------------------------------------------------
(* What the state shows of a Session, a Listener and a Connection. *)

\* The Tailscale values build() has returned: alive or already destroyed.
Sessions == { sd \in Fds : kind[sd] = "session" /\ life[sd] \in { "live", "dropped" } }

\* The Listener values listener() has returned.
Listeners == { l \in Fds : kind[l] = "listener" /\ life[l] \in { "live", "dropped" } }

\* The Connection values accept() and connect() have returned.
Connections == { c \in Fds : kind[c] = "conn" /\ life[c] \in { "live", "dropped" } }

\* The holders of a Session: the application's Arc<Tailscale> and the
\* _tailscale field of every Listener that is alive.
Holders(sd) ==
    held[sd] + Cardinality({ l \in Listeners : life[l] = "live" /\ ln_tailscale[l] = sd })

----------------------------------------------------------------------------
(* Lifetime of sessions, listeners and connections. *)

\* C1: for every Session a successful build() returned, tailscale_close has
\* been issued once if the Session has no holder left and not at all while
\* it has one: exactly once, at the destruction of the last holder, never
\* earlier and never twice.
C1_SessionClosedOnceAtLastHolder ==
    \A sd \in Sessions :
        Closes(closeLog, sd) = IF Holders(sd) = 0 THEN 1 ELSE 0

\* C1 witness: a Session that was never brought up is closed once, after a
\* Listener of it was closed.
C1_Witness_ClosedWithoutUp ==
    \E sd \in Sessions :
        /\ ~started[sd]
        /\ Closes(closeLog, sd) = 1
        /\ \E l \in Listeners : ln_tailscale[l] = sd /\ Closes(closeLog, l) = 1

\* C2: the close of a Listener's descriptor and the close of its Session
\* occur only after every Connection accepted from that Listener has had
\* its own descriptor closed.
C2_ListenerClosedAfterItsConnections ==
    \A c \in Connections :
        conn_listener[c] # 0 =>
            LET l == conn_listener[c]
                sd == ln_tailscale[l]
            IN  /\ Closes(closeLog, l) > 0 =>
                     /\ Closes(closeLog, c) > 0
                     /\ ClosedAt(closeLog, c) < ClosedAt(closeLog, l)
                /\ Closes(closeLog, sd) > 0 =>
                     /\ Closes(closeLog, c) > 0
                     /\ ClosedAt(closeLog, c) < ClosedAt(closeLog, sd)

\* C3: tailscale_close of a Session is never issued while a Connection
\* dialed from that Session has its descriptor open.
C3_SessionOpenWhileDialedConnectionOpen ==
    \A c \in Connections :
        conn_listener[c] = 0 /\ Closes(closeLog, c) = 0 =>
            Closes(closeLog, conn_origin[c]) = 0

\* C4: for every Listener, tailscale_close of its Session is issued only
\* after the Listener's own descriptor has been closed, and not while the
\* Listener exists.
C4_SessionClosedAfterListener ==
    \A l \in Listeners :
        LET sd == ln_tailscale[l]
        IN  Closes(closeLog, sd) > 0 =>
                /\ life[l] = "dropped"
                /\ Closes(closeLog, l) > 0
                /\ ClosedAt(closeLog, l) < ClosedAt(closeLog, sd)

\* C4 witness: a Listener and its Session are both closed, the Session by
\* the destructor of the Listener, its last holder.
C4_Witness_ListenerWasLastHolder ==
    \E l \in Listeners :
        /\ Closes(closeLog, l) = 1
        /\ Closes(closeLog, ln_tailscale[l]) = 1
        /\ ClosedAt(closeLog, ln_tailscale[l]) = ClosedAt(closeLog, l) + 1

\* C5: the descriptor of a Connection has been closed once if the
\* Connection is destroyed and not at all while it exists: reads, writes,
\* flush, shutdown and cancelled operations never close it.
C5_ConnectionClosedOnceAtDrop ==
    \A c \in Connections :
        Closes(closeLog, c) = IF held[c] = 0 THEN 1 ELSE 0

\* C5 witness: a Connection that has seen a readiness event in each
\* direction and the end of the peer's data is destroyed, closed once.
C5_Witness_DroppedAfterIo ==
    \E c \in Connections :
        /\ held[c] = 0 /\ Closes(closeLog, c) = 1
        /\ ready[c].read /\ ready[c].write /\ rx[c].eof

\* C6: while a read or a write of a Connection is in flight (being polled,
\* holding a ready guard, or suspended), its descriptor has not been closed.
C6_NoCloseWhileIoInFlight ==
    \A c \in Connections :
        rd[c] # "idle" \/ wr[c] # "idle" => Closes(closeLog, c) = 0 /\ held[c] = 1

\* C6 witness: a read and a write of the same Connection are in flight at
\* the same time, one about to make its OS call, the other suspended.
C6_Witness_ConcurrentReadWrite ==
    \E c \in Connections : rd[c] = "guard" /\ wr[c] = "pending"

\* C7: in poll_read and poll_write every OS attempt is made with the
\* readiness of its direction set; an attempt that reports would-block
\* clears that readiness, returns nothing to the caller and goes back to
\* waiting; readiness is cleared by nothing else; would-block is never the
\* result returned to the caller.
C7_ReadinessLoop ==
    /\ [](outcome.op \in { "poll_read", "poll_write" } => outcome.res # "EWOULDBLOCK")
    /\ [][ /\ attempt'.op = "poll_read" => ready[attempt'.fd].read
           /\ attempt'.op = "poll_write" => ready[attempt'.fd].write
           /\ attempt'.op = "poll_read" /\ attempt'.res = "EWOULDBLOCK" =>
                /\ ~ready'[attempt'.fd].read
                /\ rd'[attempt'.fd] = "poll"
                /\ outcome' = NoOutcome
           /\ attempt'.op = "poll_write" /\ attempt'.res = "EWOULDBLOCK" =>
                /\ ~ready'[attempt'.fd].write
                /\ wr'[attempt'.fd] = "poll"
                /\ outcome' = NoOutcome
           /\ \A c \in Fds :
                /\ ready[c].read /\ ~ready'[c].read =>
                     attempt' = Attempt("poll_read", c, "EWOULDBLOCK", 0)
                /\ ready[c].write /\ ~ready'[c].write =>
                     attempt' = Attempt("poll_write", c, "EWOULDBLOCK", 0)
         ]_vars

\* C7 witness: a read attempt has just reported would-block; the readiness
\* is cleared and the read is back before poll_read_ready.
C7_Witness_WouldBlockRetried ==
    /\ attempt.op = "poll_read" /\ attempt.res = "EWOULDBLOCK"
    /\ ~ready[attempt.fd].read
    /\ rd[attempt.fd] = "poll"

\* C8: when the OS read of poll_read returns 0 bytes, the read completes at
\* once with 0 bytes: it is no error, the readiness is not cleared and the
\* read does not wait again.
C8_ZeroReadCompletes ==
    attempt.op = "poll_read" /\ attempt.res = "Ok" /\ attempt.n = 0 =>
        /\ outcome = Outcome("poll_read", "Ok", 0)
        /\ rd[attempt.fd] = "idle"
        /\ ready[attempt.fd].read

\* C8 witness: the peer has closed and the OS read has just returned 0.
C8_Witness_ZeroReadAtEof ==
    /\ attempt = Attempt("poll_read", attempt.fd, "Ok", 0)
    /\ attempt.fd \in Fds
    /\ rx[attempt.fd].eof
    /\ outcome = Outcome("poll_read", "Ok", 0)

\* C9: every Connection accept() or connect() has handed out has its
\* descriptor in non-blocking mode and registered with AsyncFd; an accept()
\* or connect() returns either such a Connection or no Connection and a
\* typed failure.
C9_ConnectionsNonBlockingRegistered ==
    /\ \A c \in Connections : held[c] = 1 => flags[c].nonblock /\ flags[c].registered
    /\ outcome.op \in { "accept", "dial" } =>
         IF outcome.res = "Ok"
         THEN /\ outcome.val \in Connections
              /\ held[outcome.val] = 1
              /\ flags[outcome.val].nonblock /\ flags[outcome.val].registered
         ELSE /\ outcome.val = 0
              /\ outcome.res \in { "AcceptFailed", "DialFailed", "Tailscale", "Utf8Error",
                                    "Utf8ContentError", "SpawnBlockingFailed" }

\* C9 witness: accept() has just returned a Connection.
C9_Witness_AcceptedConnection ==
    /\ outcome.op = "accept" /\ outcome.res = "Ok"
    /\ outcome.val \in Connections
    /\ conn_listener[outcome.val] # 0

----------------------------------------------------------------------------
(* build() *)

\* Position of a native setter in the order build() applies them (0: not a
\* setter).
SetterRank(fn) ==
    CASE fn = "tailscale_set_ephemeral" -> 1
      [] fn = "tailscale_set_dir" -> 2
      [] fn = "tailscale_set_hostname" -> 3
      [] fn = "tailscale_set_authkey" -> 4
      [] fn = "tailscale_set_logfd" -> 5
      [] OTHER -> 0

\* The failure build() returns when a native setter returns non-zero.
SetterFailure(fn) ==
    CASE fn = "tailscale_set_ephemeral" -> "SetEphemeral"
      [] fn = "tailscale_set_dir" -> "SetDir"
      [] fn = "tailscale_set_hostname" -> "SetHostname"
      [] fn = "tailscale_set_authkey" -> "SetAuthKey"
      [] fn = "tailscale_set_logfd" -> "SetLogFd"
      [] OTHER -> "none"

\* C10: the first native call of build() is tailscale_new; when it yields 0
\* build() issues no setter call and fails with CreateTailscale; otherwise
\* the setter calls come in the order ephemeral, dir, hostname, authkey,
\* logfd, a setter that returns non-zero is the last call issued and build()
\* fails with that setter's failure, and a build() that succeeds has issued
\* every configured setter.
C10_BuildOrder ==
    outcome.op = "build" =>
        LET n == Len(nativeLog)
            fns == { nativeLog[i].fn : i \in 2..n }
        IN  /\ n >= 1
            /\ nativeLog[1].fn = "tailscale_new"
            /\ (nativeLog[1].ret = 0) = (outcome.res = "CreateTailscale")
            /\ nativeLog[1].ret = 0 => n = 1
            /\ \A i \in 2..n : SetterRank(nativeLog[i].fn) > 0
            /\ \A i, j \in 2..n : i < j => SetterRank(nativeLog[i].fn) < SetterRank(nativeLog[j].fn)
            /\ \A i \in 2..n :
                 nativeLog[i].ret # 0 => i = n /\ outcome.res = SetterFailure(nativeLog[i].fn)
            /\ outcome.res \in { SetterFailure(nativeLog[i].fn) : i \in 2..n } =>
                 nativeLog[n].ret # 0
            /\ outcome.res = "Ok" =>
                 /\ builder.ephemeral => "tailscale_set_ephemeral" \in fns
                 /\ builder.dir.some => "tailscale_set_dir" \in fns
                 /\ builder.hostname.some => "tailscale_set_hostname" \in fns
                 /\ builder.auth_key.some => "tailscale_set_authkey" \in fns

\* C10 witness: the hostname setter failed after the directory setter was
\* applied; the auth key, though configured, was not applied.
C10_Witness_StopsAtHostname ==
    /\ outcome.op = "build" /\ outcome.res = "SetHostname"
    /\ Len(nativeLog) = 3
    /\ nativeLog[2].fn = "tailscale_set_dir"
    /\ nativeLog[3].fn = "tailscale_set_hostname"
    /\ builder.auth_key.some /\ ~HasNul(builder.auth_key.v)

----------------------------------------------------------------------------
(* The builder after build(), and the log sink. *)

\* C11: once build() has returned a Session, the builder is locked: the
\* step that follows changes none of its settings and is no build() that
\* returns another Session.
C11_BuilderLockedByBuild ==
    [][ outcome.op = "build" /\ outcome.res = "Ok" =>
          /\ builder' = builder
          /\ ~(outcome'.op = "build" /\ outcome'.res = "Ok")
      ]_vars

\* C12: a build() that returns a Session for a builder with a log sink has
\* passed the sink's descriptor to tailscale_set_logfd and has moved the sink
\* into the Session, open; the sink of a Session is open as long as
\* tailscale_close has not been issued for the Session, and is closed once,
\* after it.
C12_SinkOwnedBySession ==
    /\ [](\A sd \in Sessions :
            ts_log_fd[sd] # 0 =>
                /\ Closes(closeLog, ts_log_fd[sd]) = Closes(closeLog, sd)
                /\ Closes(closeLog, sd) > 0 =>
                     ClosedAt(closeLog, sd) < ClosedAt(closeLog, ts_log_fd[sd]))
    /\ [][ outcome'.op = "build" /\ outcome'.res = "Ok" /\ builder.log_config.mode = "Fd" =>
             /\ nativeLog'[Len(nativeLog')].fn = "tailscale_set_logfd"
             /\ nativeLog'[Len(nativeLog')].arg = builder.log_config.fd
             /\ nativeLog'[Len(nativeLog')].sd = outcome'.val
             /\ ts_log_fd'[outcome'.val] = builder.log_config.fd
             /\ Closes(closeLog', builder.log_config.fd) = 0
         ]_vars

\* C12 witness: a Session built with a log sink has been destroyed; the sink
\* was closed right after tailscale_close.
C12_Witness_SinkClosedAfterSession ==
    \E sd \in Sessions :
        /\ ts_log_fd[sd] # 0
        /\ kind[ts_log_fd[sd]] = "logfd"
        /\ Closes(closeLog, sd) = 1
        /\ ClosedAt(closeLog, ts_log_fd[sd]) = ClosedAt(closeLog, sd) + 1

\* C13: a build() issues at most one tailscale_set_logfd call; a build() that
\* gets as far as the log destination issues none in the default mode, one
\* with the sink's descriptor in the sink mode and one with -1 in the
\* discard mode.
C13_LogModeCalls ==
    [][ outcome'.op = "build" =>
          LET logs == { i \in DOMAIN nativeLog' : nativeLog'[i].fn = "tailscale_set_logfd" }
              mode == builder.log_config.mode
          IN  /\ Cardinality(logs) <= 1
              /\ mode = "Default" => logs = { }
              /\ outcome'.res \in { "Ok", "SetLogFd" } =>
                   /\ mode = "Default" => outcome'.res = "Ok"
                   /\ mode = "Fd" =>
                        /\ Cardinality(logs) = 1
                        /\ \A i \in logs : /\ nativeLog'[i].arg = builder.log_config.fd
                                           /\ nativeLog'[i].sd = nativeLog'[1].ret
                   /\ mode = "Discard" =>
                        /\ Cardinality(logs) = 1
                        /\ \A i \in logs : /\ nativeLog'[i].arg = -1
                                           /\ nativeLog'[i].sd = nativeLog'[1].ret
              /\ outcome'.res \notin { "Ok", "SetLogFd" } => logs = { }
      ]_vars

\* C13 witness: a build() in the discard mode has returned a Session after
\* tailscale_set_logfd(sd, -1).
C13_Witness_DiscardCall ==
    /\ outcome.op = "build" /\ outcome.res = "Ok"
    /\ Len(nativeLog) >= 2
    /\ nativeLog[Len(nativeLog)].fn = "tailscale_set_logfd"
    /\ nativeLog[Len(nativeLog)].arg = -1

C15_DialedHasNoRemoteAddr ==
    outcome.op = "remote_addr" =>
        \A c \in Connections :
            /\ conn_listener[c] = 0 =>
                   nativeLog = << >> /\ outcome = Outcome("remote_addr", "Ok", 0)
            /\ conn_listener[c] # 0 =>
                /\ nativeLog # << >>
                /\ nativeLog[1].fn = "tailscale_getremoteaddr"
                /\ nativeLog[1].sd = conn_listener[c] /\ nativeLog[1].arg = c
                /\ \A i \in 2..Len(nativeLog) : nativeLog[i].fn # "tailscale_getremoteaddr"

\* remote_addr() has returned on a Connection that connect() returned.
C15_Witness_DialedAsked ==
    /\ outcome = Outcome("remote_addr", "Ok", 0)
    /\ nativeLog = << >>
    /\ \E c \in Connections : conn_listener[c] = 0 /\ life[c] = "live"

\* C16, as stated: when tailscale_getremoteaddr returns non-zero for an
\* accepted Connection, remote_addr() returns the Tailscale failure
\* containing the text tailscale_errmsg left for the session.
C16_QueryFailureCarriesLastError ==
    outcome.op = "remote_addr" /\ nativeLog # << >> /\ nativeLog[1].ret # 0 =>
        /\ Len(nativeLog) = 2
        /\ outcome = OutcomeWith("remote_addr", "Tailscale", 0, << nativeLog[2].text >>)

\* C16, amended: when tailscale_getremoteaddr returns non-zero for an
\* accepted Connection, remote_addr() calls tailscale_errmsg once, on the
\* session of the Connection's Listener, and returns a failure, never a
\* success: the Tailscale failure containing the text tailscale_errmsg left
\* if that call returns 0 (or less) with UTF-8 text, the Tailscale failure
\* "Failed to retrieve error message (error code: N)" if it returns N > 0,
\* and the Utf8ContentError failure if the text is not UTF-8.
C16_QueryFailureIsTypedFailure ==
    outcome.op = "remote_addr" /\ nativeLog # << >> /\ nativeLog[1].ret # 0 =>
        /\ Len(nativeLog) = 2
        /\ nativeLog[2].fn = "tailscale_errmsg"
        /\ nativeLog[2].sd = ln_tailscale[nativeLog[1].sd]
        /\ kind[nativeLog[2].sd] = "session"
        /\ outcome.res # "Ok"
        /\ outcome =
             IF nativeLog[2].ret > 0
             THEN OutcomeWith("remote_addr", "Tailscale", 0, << FailedToRetrieve(nativeLog[2].ret) >>)
             ELSE IF ~IsUtf8(nativeLog[2].text)
             THEN Outcome("remote_addr", "Utf8ContentError", 0)
             ELSE OutcomeWith("remote_addr", "Tailscale", 0, << nativeLog[2].text >>)

\* remote_addr() has returned the Tailscale failure with the session's error
\* text after a failed query.
C16_Witness_LastErrorReturned ==
    /\ outcome = OutcomeWith("remote_addr", "Tailscale", 0, << MsgDown >>)
    /\ Len(nativeLog) = 2
    /\ nativeLog[1].fn = "tailscale_getremoteaddr" /\ nativeLog[1].ret # 0
    /\ nativeLog[2].text = MsgDown

----------------------------------------------------------------------------
(* Failures of the bridged operations. *)

\* The failure each bridged operation has of its own, and what it carries
\* before the message: the network, in lower case, and the address.
FailedVariant(op) ==
    CASE op = "up" -> "UpFailed"
      [] op = "listen" -> "ListenFailed"
      [] op = "dial" -> "DialFailed"
      [] op = "accept" -> "AcceptFailed"
Context(c) ==
    IF c.op \in { "listen", "dial" }
    THEN << IF c.net = "Tcp" THEN << 116, 99, 112 >> ELSE << 117, 100, 112 >>, c.addr >>
    ELSE << >>

\* The step is the return of the awaited call c, whose native call has
\* reported a non-zero code.
ResumesFailed(c) ==
    /\ c \in InFlight /\ c.awaited /\ c.done /\ c.joined /\ c.ret # 0
    /\ outcome'.op = c.op
    /\ calls' = RemoveCall(c)

\* C17, as stated: whenever the native call behind up(), listener(),
\* connect() or accept() reports non-zero, the operation returns UpFailed,
\* ListenFailed, DialFailed or AcceptFailed with the text tailscale_errmsg
\* left, and, for listener() and connect(), the network and the address.
C17_NativeFailureIsOwnVariant ==
    [][ \A c \in InFlight : ResumesFailed(c) =>
            /\ Len(nativeLog') = 1
            /\ outcome' = OutcomeWith(c.op, FailedVariant(c.op), 0,
                                      Context(c) \o << nativeLog'[1].text >>) ]_vars

\* C17, amended: whenever the native call behind up(), listener(),
\* connect() or accept() reports non-zero, the operation calls
\* tailscale_errmsg once on its session and returns a failure, and no
\* Listener or Connection is produced.  If tailscale_errmsg returns 0 (or
\* less) with UTF-8 text, the failure is UpFailed, ListenFailed, DialFailed
\* or AcceptFailed with that text, ListenFailed and DialFailed carrying the
\* network as "tcp" or "udp" and the address the caller passed; if it
\* returns N > 0 the failure is Tailscale("Failed to retrieve error message
\* (error code: N)"), and if the text is not UTF-8 it is Utf8ContentError.
C17_NativeFailureIsTypedFailure ==
    [][ \A c \in InFlight : ResumesFailed(c) =>
            /\ Len(nativeLog') = 1
            /\ nativeLog'[1].fn = "tailscale_errmsg"
            /\ nativeLog'[1].sd = SessionOf(c)
            /\ outcome' =
                 IF nativeLog'[1].ret > 0
                 THEN OutcomeWith(c.op, "Tailscale", 0, << FailedToRetrieve(nativeLog'[1].ret) >>)
                 ELSE IF ~IsUtf8(nativeLog'[1].text)
                 THEN Outcome(c.op, "Utf8ContentError", 0)
                 ELSE OutcomeWith(c.op, FailedVariant(c.op), 0,
                                  Context(c) \o << nativeLog'[1].text >>)
            /\ life' = life /\ held' = held /\ strong' = strong ]_vars

\* listener() on UDP ":81" has returned ListenFailed with "udp", ":81" and
\* the error text, and there is no Listener.
C17_Witness_ListenFailedUdp ==
    /\ outcome = OutcomeWith("listen", "ListenFailed", 0,
                             << << 117, 100, 112 >>, AddrB, MsgDown >>)
    /\ Listeners = { }

\* The step is the return of the awaited call c, which the blocking pool did
\* not complete.
ResumesUnjoined(c) ==
    /\ c \in InFlight /\ c.awaited /\ c.done /\ ~c.joined
    /\ outcome'.op = c.op
    /\ calls' = RemoveCall(c)

\* C18: when the blocking pool does not complete the call, up(), listener(),
\* connect() and accept() return SpawnBlockingFailed, which is none of
\* UpFailed, ListenFailed, DialFailed and AcceptFailed; they do not call
\* tailscale_errmsg (nor any native function), and no Listener or Connection
\* is produced.  A call that was completed never returns SpawnBlockingFailed.
C18_DispatchFailureIsDistinct ==
    [][ /\ \A c \in InFlight : ResumesUnjoined(c) =>
              /\ outcome' = Outcome(c.op, "SpawnBlockingFailed", 0)
              /\ outcome'.res # FailedVariant(c.op)
              /\ nativeLog' = << >>
              /\ life' = life /\ held' = held /\ strong' = strong /\ kind' = kind
        /\ outcome'.res = "SpawnBlockingFailed" =>
              \E c \in InFlight : ResumesUnjoined(c) ]_vars

\* accept() has returned SpawnBlockingFailed, and there is no Connection.
C18_Witness_AcceptNotJoined ==
    /\ outcome = Outcome("accept", "SpawnBlockingFailed", 0)
    /\ nativeLog = << >>
    /\ Connections = { }

----------------------------------------------------------------------------
(* The blocking-call bridge. *)

\* A call that is inside its native function.
Blocked == { c \in InFlight : ~c.done }

\* C19: tailscale_up, tailscale_listen, tailscale_dial and tailscale_accept
\* run only on the blocking pool, never on the thread that polls the tasks
\* (the calls a step issues on its own thread are never one of them); so a
\* read that is being polled takes its next step, and a suspended read whose
\* descriptor is ready is polled again, also while a task's accept() (or
\* up(), listener(), connect()) stays inside the native call for ever.
C19_NativeCallsLeaveSchedulerFree ==
    /\ [](\A c \in InFlight : c.on = "pool")
    /\ [](\A i \in DOMAIN nativeLog :
              nativeLog[i].fn \notin { "tailscale_up", "tailscale_listen",
                                       "tailscale_dial", "tailscale_accept" })
    /\ \A c \in Fds : (rd[c] = "poll") ~> (rd[c] # "poll")
    /\ \A c \in Fds : (rd[c] = "guard") ~> (rd[c] # "guard")
    /\ \A c \in Fds : (rd[c] = "pending" /\ ready[c].read) ~> (rd[c] # "pending")

\* A read of the accepted Connection has returned bytes while accept() is
\* inside tailscale_accept.
C19_Witness_ReadDuringAccept ==
    /\ \E c \in Blocked : c.op = "accept" /\ c.awaited
    /\ outcome.op = "poll_read" /\ outcome.res = "Ok" /\ outcome.val > 0
    /\ attempt.op = "poll_read" /\ conn_listener[attempt.fd] # 0

\* C20: dropping the future of up(), listener(), connect() or accept()
\* while the native call runs does not end the call: a running call leaves
\* the blocking pool only by returning (or by the pool's failure).  A call
\* whose future is gone stays on the pool as it was, its result is never
\* kept for a task, and when it ends no operation returns and no Listener
\* or Connection comes of it; every result an operation returns is that of
\* a call still awaited.
C20_CancelledCallRunsOn ==
    /\ [](\A c \in InFlight : ~c.awaited => ~c.done)
    /\ [][ \A c \in Blocked : c \notin InFlight' =>
               \/ c.awaited /\ calls' = RemoveCall(c) (+) SetToBag({ [ c EXCEPT !.awaited = FALSE ] })
                            /\ life' = life /\ started' = started /\ nextFd' = nextFd
               \/ c.awaited /\ \E d \in InFlight' :
                                   /\ d.done /\ d.awaited
                                   /\ [ d EXCEPT !.done = FALSE, !.joined = TRUE,
                                                 !.ret = 0, !.out = 0 ] = c
               \/ ~c.awaited /\ calls' = RemoveCall(c)
                             /\ outcome' = NoOutcome /\ nativeLog' = << >>
                             /\ held' = held /\ strong' = strong
                             /\ ln_tailscale' = ln_tailscale /\ conn_listener' = conn_listener ]_vars
    /\ [][ outcome'.op \in Ops /\ outcome'.res # "Utf8Error" =>
               \E c \in InFlight : c.awaited /\ c.done /\ calls' = RemoveCall(c) ]_vars

\* accept() was cancelled while tailscale_accept runs: the call is still on
\* the blocking pool, and no task awaits it.
C20_Witness_CancelledStillRunning ==
    /\ \E c \in Blocked : c.op = "accept" /\ ~c.awaited /\ c.on = "pool"
    /\ outcome = NoOutcome
    /\ Connections = { }

----------------------------------------------------------------------------
(* Cancelled and failed reads and writes. *)

\* C21: dropping the future of a read or write that is suspended closes
\* nothing and changes nothing of the Connection but that the operation is
\* gone: the Connection is still held, registered and non-blocking, its
\* readiness and its buffered data are as they were, and the other direction
\* is untouched, so that a new read or write starts as on a fresh
\* Connection; a descriptor is closed only by the step that destroys its
\* Connection.
C21_CancelKeepsConnection ==
    /\ [][ outcome'.op \in { "read_dropped", "write_dropped" } =>
               LET c == outcome'.val
               IN  /\ closeLog' = closeLog /\ held' = held /\ life' = life /\ flags' = flags
                   /\ ready' = ready /\ rx' = rx /\ tx' = tx
                   /\ held[c] = 1 /\ flags[c].registered /\ flags[c].nonblock
                   /\ Closes(closeLog', c) = 0
                   /\ IF outcome'.op = "read_dropped"
                      THEN rd[c] = "pending" /\ rd'[c] = "idle" /\ wr' = wr
                      ELSE wr[c] = "pending" /\ wr'[c] = "idle" /\ rd' = rd ]_vars
    /\ [][ \A c \in Fds : Closes(closeLog', c) # Closes(closeLog, c) =>
               /\ kind[c] = "conn" => held[c] = 1 /\ held'[c] = 0
               /\ outcome'.op \notin { "read_dropped", "write_dropped" } ]_vars

\* The suspended read of a Connection has just been dropped while a write
\* of the same Connection is suspended; the descriptor is open.
C21_Witness_ReadDroppedWriteSuspended ==
    /\ outcome.op = "read_dropped"
    /\ rd[outcome.val] = "idle" /\ wr[outcome.val] = "pending"
    /\ held[outcome.val] = 1 /\ Closes(closeLog, outcome.val) = 0

\* C22: a Connection accept() returns has a descriptor no Connection had
\* before, also when two accept() calls on the Listener are in flight
\* together; destroying one of two Connections of a Listener closes its
\* descriptor and no other; while a Connection is held, its descriptor, its
\* Listener's and its Session's are open, whatever becomes of the others.
C22_AcceptedConnectionsIndependent ==
    /\ [](\A c \in Connections : held[c] = 1 /\ conn_listener[c] # 0 =>
              /\ Closes(closeLog, c) = 0
              /\ Closes(closeLog, conn_listener[c]) = 0
              /\ Closes(closeLog, ln_tailscale[conn_listener[c]]) = 0)
    /\ [](\A c1 \in InFlight, c2 \in InFlight :
              c1.done /\ c2.done /\ c1.out # 0 /\ c2.out # 0 /\ c1 # c2 => c1.out # c2.out)
    /\ [](\A c \in InFlight : c.done /\ c.out # 0 => CopiesIn(c, calls) = 1)
    /\ [][ outcome'.op = "accept" /\ outcome'.res = "Ok" =>
               /\ outcome'.val \notin Connections
               /\ outcome'.val \in Connections'
               /\ Closes(closeLog', outcome'.val) = 0 ]_vars
    /\ [][ \A c \in Connections, d \in Connections :
               /\ c # d /\ conn_listener[c] # 0 /\ conn_listener[c] = conn_listener[d]
               /\ held[c] = 1 /\ held'[c] = 0 /\ held[d] = 1
               => closeLog' = Append(closeLog, c) /\ held'[d] = 1 /\ life'[d] = "live" ]_vars

\* Of two Connections of one Listener, one is destroyed and closed, the
\* other is held and open, and so is the Listener, whose handle the
\* application has dropped.
C22_Witness_OneOfTwoDestroyed ==
    \E c \in Connections, d \in Connections :
        /\ c # d /\ conn_listener[c] # 0 /\ conn_listener[c] = conn_listener[d]
        /\ held[c] = 0 /\ Closes(closeLog, c) = 1
        /\ held[d] = 1 /\ Closes(closeLog, d) = 0
        /\ held[conn_listener[d]] = 0 /\ Closes(closeLog, conn_listener[d]) = 0

\* The close calls of a step that reported a failure.
FailedCloses(said) ==
    { i \in DOMAIN said : said[i].fn \in { "tailscale_close", "close" } /\ said[i].ret # 0 }

\* The error! lines a step wrote about descriptor fd.
ErrorLines(said, fd) == { i \in DOMAIN said : said[i].fn = "error!" /\ said[i].sd = fd }

\* C23: a Listener's descriptor has been closed once if no holder of the
\* Listener is left and not at all before; a step issues at most one close
\* per descriptor; and when tailscale_close or the close of a Listener
\* reports a failure, the step returns nothing, writes exactly one error!
\* line about that descriptor after the close, and still releases what the
\* value owned: a Listener its reference to the Session (which is closed in
\* the same step if that was the last), a Session its log sink.
C23_TeardownNeverPropagates ==
    /\ [](\A l \in Listeners :
              Closes(closeLog, l) = IF strong[l] = 0 THEN 1 ELSE 0)
    /\ [][ LET said == nativeLog'
           IN  /\ \A i, j \in DOMAIN said :
                     /\ said[i].fn \in { "tailscale_close", "close" }
                     /\ said[i].fn = said[j].fn /\ said[i].sd = said[j].sd
                     => i = j
               /\ \A i \in FailedCloses(said) :
                     LET fd == said[i].sd
                     IN  /\ outcome' = NoOutcome
                         /\ Cardinality(ErrorLines(said, fd)) = 1
                         /\ \A k \in ErrorLines(said, fd) : k > i
                         /\ closeLog' # closeLog
                         /\ Closes(closeLog', fd) = Closes(closeLog, fd) + 1
                         /\ life'[fd] = "dropped" /\ strong'[fd] = 0
                         /\ said[i].fn = "close" =>
                              LET sd == ln_tailscale[fd]
                              IN  /\ strong'[sd] = strong[sd] - 1
                                  /\ strong'[sd] = 0 =>
                                       /\ \E k \in DOMAIN said :
                                             k > i /\ said[k].fn = "tailscale_close" /\ said[k].sd = sd
                                       /\ Closes(closeLog', sd) = 1
                         /\ said[i].fn = "tailscale_close" /\ ts_log_fd[fd] # 0 =>
                              /\ Closes(closeLog, ts_log_fd[fd]) = 0
                              /\ Closes(closeLog', ts_log_fd[fd]) = 1
                              /\ ClosedAt(closeLog', ts_log_fd[fd]) > ClosedAt(closeLog', fd)
                              /\ life'[ts_log_fd[fd]] = "dropped" ]_vars

\* The drop of the last Listener handle just ran: close(ln) failed, the
\* Session went with it, tailscale_close failed too and its message could
\* not be read, and the Session's log sink was closed all the same.
C23_Witness_BothClosesFailed ==
    \E i, j \in FailedCloses(nativeLog) :
        /\ nativeLog[i].fn = "close" /\ nativeLog[j].fn = "tailscale_close" /\ i < j
        /\ ln_tailscale[nativeLog[i].sd] = nativeLog[j].sd
        /\ ts_log_fd[nativeLog[j].sd] # 0
        /\ Closes(closeLog, ts_log_fd[nativeLog[j].sd]) = 1
        /\ \E k \in DOMAIN nativeLog : nativeLog[k].fn = "tailscale_errmsg" /\ nativeLog[k].ret > 0
        /\ outcome = NoOutcome

\* C24: every Listener belongs to a Session on which up() has completed
\* successfully, and so does every Connection connect() returned: listener()
\* and connect() produce nothing on a Session that was not brought up.
C24_NetworkingOnlyAfterUp ==
    /\ \A l \in Listeners : started[ln_tailscale[l]]
    /\ \A c \in Connections : conn_listener[c] = 0 => started[conn_origin[c]]

\* C25: when the OS attempt of poll_read or poll_write fails with an error
\* other than would-block, that step returns the error with the code the OS
\* gave: the read or write is over (not back to waiting), readiness is left
\* as it was, and nothing is closed; the descriptor is closed only by the
\* step that destroys the Connection.
C25_HardErrorEndsTheCall ==
    /\ [][ attempt'.op \in { "poll_read", "poll_write" }
           /\ attempt'.res \notin { "Ok", "EWOULDBLOCK" } =>
               LET c == attempt'.fd
               IN  /\ attempt'.res \in { "ECONNRESET", "EPIPE" }
                   /\ outcome' = Outcome(attempt'.op, attempt'.res, 0)
                   /\ ready' = ready
                   /\ ready[c][IF attempt'.op = "poll_read" THEN "read" ELSE "write"]
                   /\ IF attempt'.op = "poll_read"
                      THEN rd[c] = "guard" /\ rd'[c] = "idle" /\ wr' = wr
                      ELSE wr[c] = "guard" /\ wr'[c] = "idle" /\ rd' = rd
                   /\ closeLog' = closeLog /\ Closes(closeLog', c) = 0
                   /\ held'[c] = 1 /\ life'[c] = "live" /\ flags' = flags ]_vars
    /\ [][ outcome'.op \in { "poll_read", "poll_write" }
           /\ outcome'.res \in { "ECONNRESET", "EPIPE" } =>
               attempt'.op = outcome'.op /\ attempt'.res = outcome'.res ]_vars
    /\ [][ \A c \in Connections : Closes(closeLog', c) # Closes(closeLog, c) =>
               held[c] = 1 /\ held'[c] = 0 /\ attempt' = NoAttempt ]_vars

\* A write attempt has just failed with EPIPE: poll_write returned it, the
\* write readiness is still set and the Connection is held and open.
C25_Witness_WriteFailedEpipe ==
    /\ attempt.op = "poll_write" /\ attempt.res = "EPIPE"
    /\ outcome = Outcome("poll_write", "EPIPE", 0)
    /\ ready[attempt.fd].write /\ wr[attempt.fd] = "idle"
    /\ held[attempt.fd] = 1 /\ Closes(closeLog, attempt.fd) = 0

\* C26: no read or write of a Connection, through AsyncRead / AsyncWrite or
\* through std Read / Write, returns would-block to its caller.
C26_NoEntryPointReturnsWouldBlock ==
    outcome.op \in { "poll_read", "poll_write", "read", "write" } => outcome.res # "EWOULDBLOCK"

\* C27: a read in progress on a Connection that has bytes, the end of the
\* peer's data or an error to deliver leads to the read being over: it has
\* returned, or its future was dropped.  poll_read returns a result only
\* from an OS attempt that found one: bytes that were there, 0 at the end of
\* the data, or the error of the descriptor; an attempt is made only with
\* the read readiness set, an attempt that finds nothing clears it, and a
\* poll that finds it clear suspends (returns Pending).
C27_ReadCompletesUnderFairReadiness ==
    /\ \A c \in Fds :
          (rd[c] # "idle" /\ (rx[c].avail > 0 \/ rx[c].eof \/ rx[c].err))
              ~> (rd[c] = "idle" /\ outcome.op \in { "poll_read", "read_dropped" })
    /\ [][ outcome'.op = "poll_read" /\ outcome'.res \notin { "Pending", "DriverError" } =>
               LET c == attempt'.fd
               IN  /\ attempt'.op = "poll_read" /\ attempt'.res = outcome'.res
                   /\ rd[c] = "guard" /\ rd'[c] = "idle" /\ ready[c].read
                   /\ outcome'.res \in { "Ok", "ECONNRESET" }
                   /\ outcome'.res = "Ok" /\ outcome'.val > 0 =>
                        rx[c].avail >= outcome'.val /\ rx'[c].avail = rx[c].avail - outcome'.val
                   /\ outcome'.res = "Ok" /\ outcome'.val = 0 => rx[c].avail = 0 /\ rx[c].eof
                   /\ outcome'.res = "ECONNRESET" => rx[c].avail = 0 /\ rx[c].err ]_vars
    /\ [][ \A c \in Fds :
               /\ rd[c] # "guard" /\ rd'[c] = "guard" => rd[c] = "poll" /\ ready[c].read
               /\ rd[c] = "guard" /\ rd'[c] = "poll" =>
                    /\ attempt'.res = "EWOULDBLOCK" /\ ~ready'[c].read /\ outcome' = NoOutcome
                    /\ rx[c].avail = 0 /\ ~rx[c].eof /\ ~rx[c].err
               /\ rd[c] = "poll" /\ ~ready[c].read /\ rd'[c] # "poll" =>
                    \/ rd'[c] = "pending" /\ outcome' = Outcome("poll_read", "Pending", 0)
                    \/ rd'[c] = "idle" /\ outcome' = Outcome("poll_read", "DriverError", 0) ]_vars

\* A read has just returned bytes the peer sent, from an attempt made with
\* the read readiness set; the readiness is left set.
C27_Witness_ReadReturnedBytes ==
    /\ outcome.op = "poll_read" /\ outcome.res = "Ok" /\ outcome.val > 0
    /\ attempt.op = "poll_read" /\ rd[attempt.fd] = "idle"
    /\ ready[attempt.fd].read

\* C28: every session descriptor tailscale_new has handed to build() is
\* owned by a Session that exists or has been closed by tailscale_close.
C28_FailedBuildReleasesSession ==
    \A sd \in Fds : kind[sd] = "session" /\ life[sd] # "none" =>
        \/ life[sd] = "live" /\ strong[sd] > 0
        \/ Closes(closeLog, sd) = 1

\* C29: every connection descriptor a native accept or dial has written is
\* owned by a Connection, or closed, or is the result of a finished call
\* that the awaiting accept() / connect() is about to take.
C29_ConnectionDescriptorHasOwner ==
    \A fd \in Fds : kind[fd] = "conn" /\ life[fd] # "none" =>
        \/ life[fd] = "live" /\ strong[fd] = 1
        \/ Closes(closeLog, fd) = 1
        \/ \E c \in InFlight : c.done /\ c.awaited /\ c.ret = 0 /\ c.out = fd

\* C30: while a call is inside tailscale_up, tailscale_listen,
\* tailscale_dial or tailscale_accept, the session or listener descriptor
\* it was given has not been closed.
C30_NoCloseUnderRunningCall ==
    \A c \in Blocked : Closes(closeLog, c.fd) = 0

\* C31: when up(), listener(), connect() or accept() has just returned its
\* own failure with the text tailscale_errmsg wrote, that text is the one
\* the failing call itself left: the Session's last error is about a call of
\* the same function, and for listener() and connect() with the same
\* network and address.
C31_ErrorTextIsOfTheFailingCall ==
    outcome.res \in { "UpFailed", "ListenFailed", "DialFailed", "AcceptFailed" } =>
        LET about == errmsg[nativeLog[1].sd]
        IN  /\ nativeLog[1].fn = "tailscale_errmsg"
            /\ about.op = outcome.op
            /\ outcome.op \in { "listen", "dial" } =>
                 outcome.data[1] = as_str(about.net) /\ outcome.data[2] = about.addr

\* A setter call other than the one for the log destination.
IsOptionCall(x) == x.fn \notin { "tailscale_new", "tailscale_set_logfd" }

\* The options a build() applied, in order: setter and value, whatever the
\* session.
OptionsApplied(log) ==
    LET calls_ == SelectSeq(log, IsOptionCall)
    IN  [ i \in DOMAIN calls_ |-> [ fn |-> calls_[i].fn, arg |-> calls_[i].arg, text |-> calls_[i].text ] ]

\* C32: a build() leaves the builder's ephemeral flag, directory, hostname
\* and auth key as they were; it leaves the log mode as it was when it fails
\* before the log step and resets it to the default when it reaches that
\* step, a sink going to the new Session or being closed when
\* tailscale_set_logfd fails.  A build() that follows a successful build()
\* at once and succeeds applies the same options with the same values to its
\* own new session and issues no tailscale_set_logfd.
C32_SecondBuildSameOptionsDefaultLog ==
    /\ [][ outcome'.op = "build" =>
               /\ builder'.ephemeral = builder.ephemeral
               /\ builder'.dir = builder.dir
               /\ builder'.hostname = builder.hostname
               /\ builder'.auth_key = builder.auth_key
               /\ IF outcome'.res \in { "Ok", "SetLogFd" }
                  THEN /\ builder'.log_config = LogDefault
                       /\ builder.log_config.mode = "Fd" =>
                            LET f == builder.log_config.fd
                            IN  IF outcome'.res = "Ok"
                                THEN ts_log_fd'[outcome'.val] = f /\ Closes(closeLog', f) = 0
                                ELSE Closes(closeLog', f) = 1 /\ \A sd \in Fds : ts_log_fd'[sd] # f
                  ELSE builder'.log_config = builder.log_config /\ closeLog' = closeLog ]_vars
    /\ [][ /\ outcome.op = "build" /\ outcome.res = "Ok"
           /\ outcome'.op = "build" /\ outcome'.res = "Ok"
           => /\ outcome'.val # outcome.val
              /\ OptionsApplied(nativeLog') = OptionsApplied(nativeLog)
              /\ \A i \in DOMAIN nativeLog' :
                    /\ nativeLog'[i].fn # "tailscale_set_logfd"
                    /\ IsOptionCall(nativeLog'[i]) => nativeLog'[i].sd = outcome'.val
              /\ ts_log_fd'[outcome'.val] = 0 ]_vars

\* A second Session has just been built while the first, built with a log
\* sink and a hostname, exists: the second has the hostname applied and no
\* sink, and the builder's log mode is the default.
C32_Witness_SecondBuildWithoutSink ==
    /\ outcome.op = "build" /\ outcome.res = "Ok"
    /\ \E first \in Sessions :
          /\ first # outcome.val /\ life[first] = "live" /\ ts_log_fd[first] # 0
    /\ ts_log_fd[outcome.val] = 0
    /\ builder.log_config = LogDefault
    /\ \E i \in DOMAIN nativeLog : nativeLog[i].fn = "tailscale_set_hostname"
    /\ \A i \in DOMAIN nativeLog : nativeLog[i].fn # "tailscale_set_logfd"

====
